---------------------------- MODULE Spec2Model ----------------------------
(***************************************************************************)
(* A model of the unistroke recognizers of src/dollar_ocr: OneDollar       *)
(* (angle search, onedollar.js) and QDollar (cloud match, qdollar.js).     *)
(*                                                                         *)
(* JavaScript numbers are modelled as fixed-point values with Unit steps   *)
(* per coordinate unit, together with NaN, +Infinity and -Infinity, which  *)
(* follow the IEEE rules the code relies on (x/0, 0/0, 0*Infinity,         *)
(* comparisons with NaN).                                                  *)
(***************************************************************************)
EXTENDS Integers, Sequences, FiniteSets, TLC

\* ------------------------------------------------------------------ bounds
\* Steps per coordinate unit of the fixed-point numbers.
Unit == 1024
\* Points per normalized path: this.NumPoints, 64 in the source
\* (onedollar.js:12, qdollar.js:10); the model keeps N small.
NumPoints == 4
\* Raw strokes have coordinates in 0..MaxCoord and at most MaxStrokeLen points.
MaxCoord == 1
MaxStrokeLen == 3
\* Calls made on a recognizer after its construction.
MaxCalls == 2
\* _resample called on its own: the longest array given and the largest
\* target count n (the least is 3).
MaxInputLen == 4
MaxTarget == 5

\* ------------------------------------------------------- JavaScript numbers
Fin(v) == [k |-> "fin", v |-> v]
NaN == [k |-> "nan", v |-> 0]
PosInf == [k |-> "inf", v |-> 1]
NegInf == [k |-> "inf", v |-> -1]
Zero == Fin(0)
\* The integer n as a number.
Num(n) == Fin(n * Unit)

IsNaN(a) == a.k = "nan"
IsFinite(a) == a.k = "fin"
Sgn(a) == IF a.v > 0 THEN 1 ELSE IF a.v < 0 THEN -1 ELSE 0
AbsInt(n) == IF n < 0 THEN -n ELSE n

Neg(a) == [a EXCEPT !.v = -a.v]

\* a + b
Plus(a, b) ==
    CASE IsNaN(a) \/ IsNaN(b) -> NaN
      [] a.k = "inf" /\ b.k = "inf" -> IF a.v = b.v THEN a ELSE NaN
      [] a.k = "inf" -> a
      [] b.k = "inf" -> b
      [] OTHER -> Fin(a.v + b.v)

\* a - b
Minus(a, b) == Plus(a, Neg(b))

\* p * q / Unit for p, q >= 0, rounded to nearest, without a wide product.
MulAbs(p, q) ==
    LET lo == IF p < q THEN p ELSE q
        hi == IF p < q THEN q ELSE p
    IN  lo * (hi \div Unit) + (lo * (hi % Unit) + Unit \div 2) \div Unit

\* a * b
Times(a, b) ==
    CASE IsNaN(a) \/ IsNaN(b) -> NaN
      [] a.k = "inf" \/ b.k = "inf" ->
            IF Sgn(a) * Sgn(b) = 0 THEN NaN
            ELSE IF Sgn(a) * Sgn(b) > 0 THEN PosInf ELSE NegInf
      [] OTHER -> Fin(Sgn(a) * Sgn(b) * MulAbs(AbsInt(a.v), AbsInt(b.v)))

\* p * Unit / q for p >= 0, q > 0, rounded to nearest.
DivAbs(p, q) == (p \div q) * Unit + ((p % q) * Unit + q \div 2) \div q

\* a / b (a zero divisor is +0)
Over(a, b) ==
    CASE IsNaN(a) \/ IsNaN(b) -> NaN
      [] a.k = "inf" /\ b.k = "inf" -> NaN
      [] a.k = "inf" -> IF Sgn(a) * (IF b.v < 0 THEN -1 ELSE 1) > 0
                        THEN PosInf ELSE NegInf
      [] b.k = "inf" -> Zero
      [] b.v = 0 -> IF a.v = 0 THEN NaN ELSE IF a.v > 0 THEN PosInf ELSE NegInf
      [] OTHER -> Fin(Sgn(a) * Sgn(b) * DivAbs(AbsInt(a.v), AbsInt(b.v)))

\* a < b; false when either is NaN
Lt(a, b) ==
    /\ ~IsNaN(a)
    /\ ~IsNaN(b)
    /\ IF a.k = "inf" THEN a.v < 0 /\ ~(b.k = "inf" /\ b.v < 0)
       ELSE IF b.k = "inf" THEN b.v > 0
       ELSE a.v < b.v

\* a >= b; false when either is NaN
Ge(a, b) == ~IsNaN(a) /\ ~IsNaN(b) /\ ~Lt(a, b)

\* a === b
StrictEq(a, b) == ~IsNaN(a) /\ ~IsNaN(b) /\ a = b

MathMin(a, b) == IF IsNaN(a) \/ IsNaN(b) THEN NaN ELSE IF Lt(b, a) THEN b ELSE a
MathMax(a, b) == IF IsNaN(a) \/ IsNaN(b) THEN NaN ELSE IF Lt(a, b) THEN b ELSE a
MathAbs(a) == IF a.k = "nan" THEN NaN ELSE [a EXCEPT !.v = AbsInt(a.v)]

\* The integer square root of n >= 0.
RECURSIVE ISqrt(_)
ISqrt(n) ==
    IF n < 2 THEN n
    ELSE LET s == 2 * ISqrt(n \div 4)
         IN  IF (s + 1) * (s + 1) <= n THEN s + 1 ELSE s

\* Math.sqrt
MathSqrt(a) ==
    CASE IsNaN(a) -> NaN
      [] a.k = "inf" -> IF a.v > 0 THEN PosInf ELSE NaN
      [] a.v < 0 -> NaN
      [] a.v < 1073741824 \div Unit -> Fin(ISqrt(a.v * Unit))
      [] OTHER -> Fin(ISqrt(a.v) * ISqrt(Unit))

\* pi, as a number of steps.
PiV == (355 * Unit + 56) \div 113

\* sin x for 0 <= x <= pi (in steps), by Bhaskara's rational approximation
\* 16 x (pi - x) / (5 pi^2 - 4 x (pi - x)).
SinHalfTurn(x) ==
    LET p == x * (PiV - x)
        r == IF Unit >= 32 THEN Unit \div 16 ELSE 1
    IN  DivAbs((16 * p) \div r, (5 * PiV * PiV - 4 * p) \div r)

\* Math.sin
MathSin(a) ==
    IF ~IsFinite(a) THEN NaN
    ELSE LET r == a.v % (2 * PiV)
         IN  IF r <= PiV THEN Fin(SinHalfTurn(r)) ELSE Fin(-SinHalfTurn(r - PiV))

\* Math.cos
MathCos(a) == MathSin(Plus(a, Fin(PiV \div 2)))

\* atan z for 0 <= z <= 1 (in steps): z (pi/4 + 0.273 (1 - z)).
AtanUnit(z) == MulAbs(z, PiV \div 4 + (273 * (Unit - z)) \div 1000)

\* Math.atan2(y, x)
MathAtan2(y, x) ==
    CASE IsNaN(y) \/ IsNaN(x) -> NaN
      [] y.k = "inf" /\ x.k = "inf" ->
            Fin(Sgn(y) * (IF x.v > 0 THEN PiV \div 4 ELSE (3 * PiV) \div 4))
      [] y.k = "inf" -> Fin(Sgn(y) * (PiV \div 2))
      [] x.k = "inf" -> IF x.v > 0 THEN Zero
                        ELSE Fin((IF y.v < 0 THEN -1 ELSE 1) * PiV)
      [] x.v = 0 /\ y.v = 0 -> Zero
      [] OTHER ->
            LET ax == AbsInt(x.v)
                ay == AbsInt(y.v)
                t  == IF ax >= ay THEN AtanUnit(DivAbs(ay, ax))
                      ELSE PiV \div 2 - AtanUnit(DivAbs(ax, ay))
                u  == IF x.v < 0 THEN PiV - t ELSE t
            IN  Fin(IF y.v < 0 THEN -u ELSE u)

\* ------------------------------------------------------------------ points
\* An element of a point array: kind "pair" is the array [x, y], kind
\* "record" the object {x, y} (with id when id # 0; 0 stands for no id).
Pair(x, y) == [kind |-> "pair", x |-> x, y |-> y, id |-> 0]
Rec(x, y, id) == [kind |-> "record", x |-> x, y |-> y, id |-> id]
\* p.x and p.y: undefined on an array, and undefined acts as NaN in arithmetic.
PX(p) == IF p.kind = "record" THEN p.x ELSE NaN
PY(p) == IF p.kind = "record" THEN p.y ELSE NaN

\* points.splice(i, 0, q), with k the 1-based position of q afterwards
Splice(points, k, q) ==
    [j \in 1..(Len(points) + 1) |->
        IF j < k THEN points[j] ELSE IF j = k THEN q ELSE points[j - 1]]

AllFinitePoints(points) ==
    \A i \in 1..Len(points) : IsFinite(PX(points[i])) /\ IsFinite(PY(points[i]))

\* ------------------------------------------------- geometry (both classes)
\* The integer square root of n >= 0, rounded to nearest.
ISqrtRound(n) == LET r == ISqrt(n) IN IF n - r * r > r THEN r + 1 ELSE r

\* sqrt(a^2 + b^2) for integers a, b >= 0, the squares kept exact (the
\* intermediate values of the code are doubles) unless they are too wide.
IHypot(a, b) ==
    LET m == IF a < b THEN b ELSE a
    IN  IF m < 23170 THEN ISqrtRound(a * a + b * b)
        ELSE LET s == m \div 16384 + 1
             IN  s * ISqrtRound((a \div s) * (a \div s) + (b \div s) * (b \div s))

\* Math.sqrt(dx * dx + dy * dy)
Hypot(dx, dy) ==
    CASE IsNaN(dx) \/ IsNaN(dy) -> NaN
      [] dx.k = "inf" \/ dy.k = "inf" -> PosInf
      [] OTHER -> Fin(IHypot(AbsInt(dx.v), AbsInt(dy.v)))

\* _distance (onedollar.js:232, the same code at qdollar.js:212)
Distance(p1, p2) == Hypot(Minus(PX(p1), PX(p2)), Minus(PY(p1), PY(p2)))

\* The point q of _resample: p0 + f * (p1 - p0), coordinate by coordinate
\* (onedollar.js:119-122, qdollar.js:150-154).
Interpolate(p0, p1, f, id) ==
    Rec(Plus(PX(p0), Times(f, Minus(PX(p1), PX(p0)))),
        Plus(PY(p0), Times(f, Minus(PY(p1), PY(p0)))), id)

RECURSIVE SumX(_, _)
SumX(points, i) ==
    IF i = 0 THEN Zero ELSE Plus(SumX(points, i - 1), PX(points[i]))
RECURSIVE SumY(_, _)
SumY(points, i) ==
    IF i = 0 THEN Zero ELSE Plus(SumY(points, i - 1), PY(points[i]))

\* _centroid (onedollar.js:238, the same code at qdollar.js:194)
Centroid(points) ==
    [x |-> Over(SumX(points, Len(points)), Num(Len(points))),
     y |-> Over(SumY(points, Len(points)), Num(Len(points)))]

\* ---------------------------------------------------------------- OneDollar
SquareSize == 250
AngleRange == 45
AnglePrecision == 2
Origin == [x |-> Zero, y |-> Zero]
\* this.HalfDiagonal = 0.5 * sqrt(SquareSize^2 + SquareSize^2)
HalfDiagonal ==
    Times(Fin(Unit \div 2),
          MathSqrt(Plus(Times(Num(SquareSize), Num(SquareSize)),
                        Times(Num(SquareSize), Num(SquareSize)))))
\* this.Phi = 0.5 * (-1.0 + Math.sqrt(5.0))
Phi == Times(Fin(Unit \div 2), Plus(Num(-1), MathSqrt(Num(5))))

\* OneDollar._convertPoints: an array whose first element is an array is
\* mapped to fresh {x, y} objects; any other array is returned as it is.
One_convertPoints(rawPoints) ==
    IF Len(rawPoints) > 0 /\ rawPoints[1].kind = "pair"
    THEN [i \in 1..Len(rawPoints) |->
            IF rawPoints[i].kind = "pair"
            THEN Rec(rawPoints[i].x, rawPoints[i].y, 0)
            ELSE Rec(NaN, NaN, 0)]
    ELSE rawPoints

RECURSIVE One_pathLengthFrom(_, _)
One_pathLengthFrom(points, i) ==
    IF i < 2 THEN Zero
    ELSE Plus(One_pathLengthFrom(points, i - 1), Distance(points[i - 1], points[i]))
\* OneDollar._pathLength
One_pathLength(points) == One_pathLengthFrom(points, Len(points))

\* The loop of OneDollar._resample from position k (1-based) on: the walked
\* array grows by the points spliced into it.
RECURSIVE One_resampleLoop(_, _, _, _, _)
One_resampleLoop(points, newPoints, D, k, I) ==
    IF k > Len(points) THEN [points |-> points, newPoints |-> newPoints]
    ELSE LET Insert(q) ==
                 One_resampleLoop(Splice(points, k, q), Append(newPoints, q),
                                  Zero, k + 1, I)
             Step(d) ==
                 IF Ge(Plus(D, d), I)
                 THEN Insert(Interpolate(points[k - 1], points[k],
                                         Over(Minus(I, D), d), 0))
                 ELSE One_resampleLoop(points, newPoints, Plus(D, d), k + 1, I)
         IN  Step(Distance(points[k - 1], points[k]))

\* One_resample without the last point appended when the loop falls one short.
One_resampleNoFixUp(points, n) ==
    One_resampleLoop(points, <<points[1]>>, Zero, 2,
                     Over(One_pathLength(points), Num(n - 1)))

\* OneDollar._resample on a non-empty array: the points returned
\* (newPoints) and the argument array as the call leaves it (points).
One_resample(points, n) ==
    LET I == Over(One_pathLength(points), Num(n - 1))
        FixUp(r) ==
            LET last == r.points[Len(r.points)]
            IN  IF Len(r.newPoints) = n - 1
                THEN [points |-> r.points,
                      newPoints |-> Append(r.newPoints, Rec(PX(last), PY(last), 0))]
                ELSE r
    IN  FixUp(One_resampleLoop(points, <<points[1]>>, Zero, 2, I))

\* OneDollar._indicativeAngle
One_indicativeAngle(points) ==
    LET c == Centroid(points)
    IN  MathAtan2(Minus(c.y, PY(points[1])), Minus(c.x, PX(points[1])))

\* OneDollar._rotateBy
One_rotateBy(points, radians) ==
    LET Turn(dx, dy, c, cos, sin) ==
            Rec(Plus(Minus(Times(dx, cos), Times(dy, sin)), c.x),
                Plus(Plus(Times(dx, sin), Times(dy, cos)), c.y), 0)
        About(c, cos, sin) ==
            [i \in 1..Len(points) |->
                Turn(Minus(PX(points[i]), c.x), Minus(PY(points[i]), c.y),
                     c, cos, sin)]
    IN  About(Centroid(points), MathCos(radians), MathSin(radians))

RECURSIVE FoldX(_, _, _, _)
\* The running Math.min (least = TRUE) or Math.max of the x coordinates.
FoldX(points, i, acc, least) ==
    IF i > Len(points) THEN acc
    ELSE FoldX(points, i + 1,
               IF least THEN MathMin(acc, PX(points[i]))
               ELSE MathMax(acc, PX(points[i])), least)
RECURSIVE FoldY(_, _, _, _)
FoldY(points, i, acc, least) ==
    IF i > Len(points) THEN acc
    ELSE FoldY(points, i + 1,
               IF least THEN MathMin(acc, PY(points[i]))
               ELSE MathMax(acc, PY(points[i])), least)

\* OneDollar._boundingBox
One_boundingBox(points) ==
    LET Rectangle(minX, maxX, minY, maxY) ==
            [x |-> minX, y |-> minY,
             width |-> Minus(maxX, minX), height |-> Minus(maxY, minY)]
    IN  Rectangle(FoldX(points, 1, PosInf, TRUE), FoldX(points, 1, NegInf, FALSE),
                  FoldY(points, 1, PosInf, TRUE), FoldY(points, 1, NegInf, FALSE))

\* OneDollar._scaleTo
One_scaleTo(points, size) ==
    LET Scaled(B) ==
            [i \in 1..Len(points) |->
                Rec(Times(PX(points[i]), Over(size, B.width)),
                    Times(PY(points[i]), Over(size, B.height)), 0)]
    IN  Scaled(One_boundingBox(points))

\* OneDollar._translateTo
One_translateTo(points, pt) ==
    LET Moved(c) ==
            [i \in 1..Len(points) |->
                Rec(Minus(Plus(PX(points[i]), pt.x), c.x),
                    Minus(Plus(PY(points[i]), pt.y), c.y), 0)]
    IN  Moved(Centroid(points))

\* OneDollar._vectorize
RECURSIVE One_sumSquares(_, _)
One_sumSquares(points, i) ==
    IF i = 0 THEN Zero
    ELSE Plus(One_sumSquares(points, i - 1),
              Plus(Times(PX(points[i]), PX(points[i])),
                   Times(PY(points[i]), PY(points[i]))))
One_vectorize(points) ==
    LET Unitized(magnitude) ==
            [i \in 1..(2 * Len(points)) |->
                IF i % 2 = 1 THEN Over(PX(points[(i + 1) \div 2]), magnitude)
                ELSE Over(PY(points[i \div 2]), magnitude)]
    IN  Unitized(MathSqrt(One_sumSquares(points, Len(points))))

\* The value of a call that ends in a TypeError (a property read of undefined).
Threw == [k |-> "throw", v |-> 0]

\* OneDollar._pathDistance; pts2[i] is undefined, and reading its x throws,
\* when pts2 is shorter than pts1.
RECURSIVE One_pathDistanceSum(_, _, _)
One_pathDistanceSum(pts1, pts2, i) ==
    IF i = 0 THEN Zero
    ELSE Plus(One_pathDistanceSum(pts1, pts2, i - 1), Distance(pts1[i], pts2[i]))
One_pathDistance(pts1, pts2) ==
    IF Len(pts2) < Len(pts1) THEN Threw
    ELSE Over(One_pathDistanceSum(pts1, pts2, Len(pts1)), Num(Len(pts1)))

\* OneDollar._distanceAtAngle
One_distanceAtAngle(points, T, radians) ==
    One_pathDistance(One_rotateBy(points, radians), T.Points)

\* The while loop of OneDollar._distanceAtBestAngle.
RECURSIVE One_goldenLoop(_, _, _, _, _, _, _, _, _)
One_goldenLoop(points, T, a, b, x1, f1, x2, f2, threshold) ==
    IF ~Lt(threshold, MathAbs(Minus(b, a))) THEN MathMin(f1, f2)
    ELSE IF Lt(f1, f2)
         THEN LET Lower(nx1) ==
                      One_goldenLoop(points, T, a, x2, nx1,
                                     One_distanceAtAngle(points, T, nx1), x1, f1,
                                     threshold)
              IN  Lower(Plus(Times(Phi, a), Times(Minus(Num(1), Phi), x2)))
         ELSE LET Upper(nx2) ==
                      One_goldenLoop(points, T, x1, b, x2, f2, nx2,
                                     One_distanceAtAngle(points, T, nx2), threshold)
              IN  Upper(Plus(Times(Minus(Num(1), Phi), x1), Times(Phi, b)))

\* OneDollar._distanceAtBestAngle
One_distanceAtBestAngle(points, T, a, b, threshold) ==
    IF Len(T.Points) < Len(points) THEN Threw
    ELSE LET Search(x1, x2) ==
                 One_goldenLoop(points, T, a, b, x1, One_distanceAtAngle(points, T, x1),
                                x2, One_distanceAtAngle(points, T, x2), threshold)
         IN  Search(Plus(Times(Phi, a), Times(Minus(Num(1), Phi), b)),
                    Plus(Times(Minus(Num(1), Phi), a), Times(Phi, b)))

\* The steps of check and add between _convertPoints and the template loop:
\* resample, derotate by the indicative angle, scale, translate.
One_normalize(resampled) ==
    LET radians == One_indicativeAngle(resampled)
        rotated == One_rotateBy(resampled, Neg(radians))
        scaled  == One_scaleTo(rotated, Num(SquareSize))
    IN  One_translateTo(scaled, Origin)

\* The template loop of OneDollar.check from template i on: the best
\* distance b and its index t (0-based, as in the source); threw when a
\* distance computation threw.
RECURSIVE One_checkLoop(_, _, _, _, _)
One_checkLoop(templates, processedPoints, i, b, t) ==
    IF i > Len(templates) THEN [threw |-> FALSE, b |-> b, t |-> t]
    ELSE LET Compare(d) ==
                 IF d = Threw THEN [threw |-> TRUE, b |-> b, t |-> t]
                 ELSE IF Lt(d, b)
                      THEN One_checkLoop(templates, processedPoints, i + 1, d, i - 1)
                      ELSE One_checkLoop(templates, processedPoints, i + 1, b, t)
         IN  Compare(One_distanceAtBestAngle(processedPoints, templates[i],
                                             Num(-AngleRange), Num(AngleRange),
                                             Num(AnglePrecision)))

\* ------------------------------------------------------------------ QDollar
\* The divisor 0.5 of the score (qdollar.js:57), as a number.
Half == Fin(Unit \div 2)

\* Q_convertPoints with the fresh objects carrying their index as id.
Q_convertPointsIndexed(rawPoints) ==
    IF Len(rawPoints) > 0 /\ rawPoints[1].kind = "pair"
    THEN [i \in 1..Len(rawPoints) |->
            IF rawPoints[i].kind = "pair"
            THEN Rec(rawPoints[i].x, rawPoints[i].y, i)
            ELSE Rec(NaN, NaN, i)]
    ELSE rawPoints

\* QDollar._convertPoints: as OneDollar's, the fresh objects carrying id 1.
Q_convertPoints(rawPoints) ==
    IF Len(rawPoints) > 0 /\ rawPoints[1].kind = "pair"
    THEN [i \in 1..Len(rawPoints) |->
            IF rawPoints[i].kind = "pair"
            THEN Rec(rawPoints[i].x, rawPoints[i].y, 1)
            ELSE Rec(NaN, NaN, 1)]
    ELSE rawPoints

RECURSIVE Q_pathLengthFrom(_, _)
Q_pathLengthFrom(points, i) ==
    IF i < 2 THEN Zero
    ELSE IF points[i].id = points[i - 1].id
         THEN Plus(Q_pathLengthFrom(points, i - 1), Distance(points[i - 1], points[i]))
         ELSE Q_pathLengthFrom(points, i - 1)
\* QDollar._pathLength
Q_pathLength(points) == Q_pathLengthFrom(points, Len(points))

\* The loop of QDollar._resample from position k (1-based) on.
RECURSIVE Q_resampleLoop(_, _, _, _, _)
Q_resampleLoop(points, newPoints, D, k, I) ==
    IF k > Len(points) THEN [points |-> points, newPoints |-> newPoints]
    ELSE IF points[k].id # points[k - 1].id
         THEN Q_resampleLoop(points, newPoints, D, k + 1, I)
    ELSE LET Insert(q) ==
                 Q_resampleLoop(Splice(points, k, q), Append(newPoints, q),
                                Zero, k + 1, I)
             Step(d) ==
                 IF Ge(Plus(D, d), I)
                 THEN Insert(Interpolate(points[k - 1], points[k],
                                         Over(Minus(I, D), d), points[k].id))
                 ELSE Q_resampleLoop(points, newPoints, Plus(D, d), k + 1, I)
         IN  Step(Distance(points[k - 1], points[k]))

\* QDollar._resample on a non-empty array: the points returned (newPoints)
\* and the argument array as the call leaves it (points).
Q_resample(points, n) ==
    LET I == Over(Q_pathLength(points), Num(n - 1))
        FixUp(r) ==
            LET last == r.points[Len(r.points)]
            IN  IF Len(r.newPoints) = n - 1
                THEN [points |-> r.points,
                      newPoints |-> Append(r.newPoints,
                                           Rec(PX(last), PY(last), last.id))]
                ELSE r
    IN  FixUp(Q_resampleLoop(points, <<points[1]>>, Zero, 2, I))

\* QDollar._scale
Q_scale(points) ==
    LET Scaled(minX, minY, size) ==
            [i \in 1..Len(points) |->
                Rec(Over(Minus(PX(points[i]), minX), size),
                    Over(Minus(PY(points[i]), minY), size), points[i].id)]
        Extent(minX, maxX, minY, maxY) ==
            Scaled(minX, minY, MathMax(Minus(maxX, minX), Minus(maxY, minY)))
    IN  Extent(FoldX(points, 1, PosInf, TRUE), FoldX(points, 1, NegInf, FALSE),
               FoldY(points, 1, PosInf, TRUE), FoldY(points, 1, NegInf, FALSE))

\* QDollar._translateTo
Q_translateTo(points, pt) ==
    LET Moved(c) ==
            [i \in 1..Len(points) |->
                Rec(Minus(Plus(PX(points[i]), pt.x), c.x),
                    Minus(Plus(PY(points[i]), pt.y), c.y), points[i].id)]
    IN  Moved(Centroid(points))

\* The steps of check and add after _resample: scale, translate.
Q_normalize(resampled) == Q_translateTo(Q_scale(resampled), Origin)

\* QDollar._sqrEuclideanDistance.  The square is kept exact, in squared
\* steps: it is only compared with other squares and given to Math.sqrt.
Q_sqrEuclideanDistance(p1, p2) ==
    LET Square(dx, dy) ==
            CASE IsNaN(dx) \/ IsNaN(dy) -> NaN
              [] dx.k = "inf" \/ dy.k = "inf" -> PosInf
              [] OTHER -> Fin(dx.v * dx.v + dy.v * dy.v)
    IN  Square(Minus(PX(p1), PX(p2)), Minus(PY(p1), PY(p2)))

\* Math.sqrt of a value in squared steps.
SqrtOfSquare(a) ==
    CASE IsNaN(a) -> NaN
      [] a.k = "inf" -> PosInf
      [] OTHER -> Fin(ISqrtRound(a.v))

\* The inner loop of _cloudDistance over the template points j..n: the
\* least squared distance to a point not yet matched and its 1-based index
\* (0 for the source's -1).
RECURSIVE Q_nearest(_, _, _, _, _, _, _)
Q_nearest(p, pts2, matched, j, n, min, index) ==
    IF j > n THEN [min |-> min, index |-> index]
    ELSE IF j \in matched THEN Q_nearest(p, pts2, matched, j + 1, n, min, index)
    ELSE LET Compare(d) ==
                 IF Lt(d, min) THEN Q_nearest(p, pts2, matched, j + 1, n, d, j)
                 ELSE Q_nearest(p, pts2, matched, j + 1, n, min, index)
         IN  Compare(Q_sqrEuclideanDistance(p, pts2[j]))

\* Q_cloudLoop with the early exit taken at half the best distance so far.
RECURSIVE Q_cloudLoopEager(_, _, _, _, _, _)
Q_cloudLoopEager(pts1, pts2, i, matched, sum, minSoFar) ==
    IF i > Len(pts1) THEN sum
    ELSE LET Prune(nmatched, nsum) ==
                 IF Ge(Plus(nsum, nsum), minSoFar) THEN nsum
                 ELSE Q_cloudLoopEager(pts1, pts2, i + 1, nmatched, nsum, minSoFar)
             Match(r) ==
                 IF r.index # 0
                 THEN Prune(matched \cup {r.index}, Plus(sum, SqrtOfSquare(r.min)))
                 ELSE Prune(matched, sum)
         IN  Match(Q_nearest(pts1[i], pts2, matched, 1, Len(pts1), PosInf, 0))

\* The outer loop of _cloudDistance from candidate point i on.
RECURSIVE Q_cloudLoop(_, _, _, _, _, _)
Q_cloudLoop(pts1, pts2, i, matched, sum, minSoFar) ==
    IF i > Len(pts1) THEN sum
    ELSE LET Prune(nmatched, nsum) ==
                 IF Ge(nsum, minSoFar) THEN nsum
                 ELSE Q_cloudLoop(pts1, pts2, i + 1, nmatched, nsum, minSoFar)
             Match(r) ==
                 IF r.index # 0
                 THEN Prune(matched \cup {r.index}, Plus(sum, SqrtOfSquare(r.min)))
                 ELSE Prune(matched, sum)
         IN  Match(Q_nearest(pts1[i], pts2, matched, 1, Len(pts1), PosInf, 0))

\* QDollar._cloudDistance (start is unused by the source); pts2[j] is
\* undefined, and reading its x throws, when pts2 is shorter than pts1.
Q_cloudDistance(pts1, pts2, minSoFar) ==
    IF Len(pts2) < Len(pts1) THEN Threw
    ELSE Q_cloudLoop(pts1, pts2, 1, {}, Zero, minSoFar)

\* QDollar._cloudMatch
Q_cloudMatch(points, template, minSoFar) ==
    Q_cloudDistance(points, template.Points, minSoFar)

\* The template loop of QDollar.check from template i on: the least
\* distance and the 1-based index of bestTemplate (0 for null); threw when a
\* distance computation threw.
RECURSIVE Q_checkLoop(_, _, _, _, _)
Q_checkLoop(templates, processedPoints, i, minDistance, best) ==
    IF i > Len(templates)
    THEN [threw |-> FALSE, minDistance |-> minDistance, best |-> best]
    ELSE LET Compare(d) ==
                 IF d = Threw
                 THEN [threw |-> TRUE, minDistance |-> minDistance, best |-> best]
                 ELSE IF Lt(d, minDistance)
                      THEN Q_checkLoop(templates, processedPoints, i + 1, d, i)
                      ELSE Q_checkLoop(templates, processedPoints, i + 1,
                                       minDistance, best)
         IN  Compare(Q_cloudMatch(processedPoints, templates[i], minDistance))

\* --------------------------------------------------------- check and add
\* What a call leaves behind: the value returned (or that it threw) and the
\* caller's array as the call leaves it.  The ms field of a result, the
\* elapsed time, is not modelled.
Returned(name, score) == [kind |-> "returned", name |-> name, score |-> score]
Thrown == [kind |-> "threw", name |-> "", score |-> Zero]

\* One_check with the score returned as computed, without Math.max(score, 0).
One_checkUnclamped(templates, points) ==
    IF Len(points) = 0 THEN [result |-> Thrown, points |-> points]
    ELSE LET Result(left, loop) ==
                 IF loop.threw \/ Len(templates) = 0
                 THEN [result |-> Thrown, points |-> left]
                 ELSE [result |->
                          Returned(templates[loop.t + 1].Name,
                                   Minus(Num(1), Over(loop.b, HalfDiagonal))),
                       points |-> left]
             Match(r) ==
                 Result(IF points[1].kind = "pair" THEN points ELSE r.points,
                        One_checkLoop(templates, One_normalize(r.newPoints),
                                      1, PosInf, 0))
         IN  Match(One_resample(One_convertPoints(points), NumPoints))

\* OneDollar.check(points) on the store templates.
One_check(templates, points) ==
    IF Len(points) = 0 THEN [result |-> Thrown, points |-> points]
    ELSE LET Result(left, loop) ==
                 IF loop.threw \/ Len(templates) = 0
                 THEN [result |-> Thrown, points |-> left]
                 ELSE [result |->
                          Returned(templates[loop.t + 1].Name,
                                   MathMax(Minus(Num(1), Over(loop.b, HalfDiagonal)),
                                           Zero)),
                       points |-> left]
             Match(r) ==
                 Result(IF points[1].kind = "pair" THEN points ELSE r.points,
                        One_checkLoop(templates, One_normalize(r.newPoints),
                                      1, PosInf, 0))
         IN  Match(One_resample(One_convertPoints(points), NumPoints))

\* One_add replacing a stored template of the same name instead of appending.
One_addReplacing(templates, name, points) ==
    IF Len(points) = 0
    THEN [result |-> Thrown, points |-> points, Templates |-> templates]
    ELSE LET Put(entry) ==
                 IF \E i \in 1..Len(templates) : templates[i].Name = name
                 THEN [i \in 1..Len(templates) |->
                          IF templates[i].Name = name THEN entry ELSE templates[i]]
                 ELSE Append(templates, entry)
             Push(left, processed) ==
                 [result |-> Returned("", Zero), points |-> left,
                  Templates |-> Put([Name |-> name, Points |-> processed,
                                     Vector |-> One_vectorize(processed)])]
             Store(r) ==
                 Push(IF points[1].kind = "pair" THEN points ELSE r.points,
                      One_normalize(r.newPoints))
         IN  Store(One_resample(One_convertPoints(points), NumPoints))

\* OneDollar.add(name, points): the store afterwards.
One_add(templates, name, points) ==
    IF Len(points) = 0
    THEN [result |-> Thrown, points |-> points, Templates |-> templates]
    ELSE LET Push(left, processed) ==
                 [result |-> Returned("", Zero), points |-> left,
                  Templates |-> Append(templates,
                                       [Name |-> name, Points |-> processed,
                                        Vector |-> One_vectorize(processed)])]
             Store(r) ==
                 Push(IF points[1].kind = "pair" THEN points ELSE r.points,
                      One_normalize(r.newPoints))
         IN  Store(One_resample(One_convertPoints(points), NumPoints))

\* QDollar.check(points) on the store templates.
Q_check(templates, points) ==
    IF Len(points) = 0 THEN [result |-> Thrown, points |-> points]
    ELSE LET Result(left, loop) ==
                 IF loop.threw THEN [result |-> Thrown, points |-> left]
                 ELSE IF loop.best # 0
                 THEN [result |->
                          Returned(templates[loop.best].Name,
                                   MathMax(Minus(Num(1),
                                                 Over(Over(loop.minDistance,
                                                           Num(NumPoints)), Half)),
                                           Zero)),
                       points |-> left]
                 ELSE [result |-> Returned("No match", Zero), points |-> left]
             Match(r) ==
                 Result(IF points[1].kind = "pair" THEN points ELSE r.points,
                        Q_checkLoop(templates, Q_normalize(r.newPoints), 1, PosInf, 0))
         IN  Match(Q_resample(Q_convertPoints(points), NumPoints))

\* QDollar.add(name, points): the store afterwards.
Q_add(templates, name, points) ==
    IF Len(points) = 0
    THEN [result |-> Thrown, points |-> points, Templates |-> templates]
    ELSE LET Store(r) ==
                 [result |-> Returned("", Zero),
                  points |-> IF points[1].kind = "pair" THEN points ELSE r.points,
                  Templates |-> Append(templates,
                                       [Name |-> name,
                                        Points |-> Q_normalize(r.newPoints),
                                        LUT |-> <<>>])]
         IN  Store(Q_resample(Q_convertPoints(points), NumPoints))

\* The default templates the constructors register (onedollar.js:24-32,
\* qdollar.js:17-25), as arrays of [x, y] pairs: the nine strokes of the
\* source are represented by two strokes on the model's grid.
DefaultStrokes ==
    << [Name |-> "Triangle",
        points |-> <<Pair(Num(0), Num(0)), Pair(Num(1), Num(0)), Pair(Num(0), Num(1))>>],
       [Name |-> "Check",
        points |-> <<Pair(Num(0), Num(0)), Pair(Num(0), Num(1)), Pair(Num(1), Num(1))>>] >>

RECURSIVE One_constructor(_)
\* The store after the first i registrations of OneDollar's constructor.
One_constructor(i) ==
    IF i = 0 THEN <<>>
    ELSE One_add(One_constructor(i - 1), DefaultStrokes[i].Name,
                 DefaultStrokes[i].points).Templates
RECURSIVE Q_constructor(_)
\* The store after the first i registrations of QDollar's constructor.
Q_constructor(i) ==
    IF i = 0 THEN <<>>
    ELSE Q_add(Q_constructor(i - 1), DefaultStrokes[i].Name,
               DefaultStrokes[i].points).Templates

\* ------------------------------------------------------------------ inputs
Coords == 0..MaxCoord
\* The arrays a caller passes: at most MaxStrokeLen points on the grid,
\* starting at the grid's origin, all [x, y] pairs or all {x, y} records.
RECURSIVE GridSeqs(_)
GridSeqs(n) ==
    IF n = 0 THEN {<<>>}
    ELSE LET shorter == GridSeqs(n - 1)
         IN  shorter \cup
             {Append(s, <<x, y>>) : s \in {t \in shorter : Len(t) = n - 1},
                                    x \in Coords, y \in Coords}
GridStrokes == {s \in GridSeqs(MaxStrokeLen) : Len(s) = 0 \/ s[1] = <<0, 0>>}
AsPairs(s) == [i \in 1..Len(s) |-> Pair(Num(s[i][1]), Num(s[i][2]))]
AsRecords(s) == [i \in 1..Len(s) |-> Rec(Num(s[i][1]), Num(s[i][2]), 0)]
RawStrokes == {AsPairs(s) : s \in GridStrokes} \cup {AsRecords(s) : s \in GridStrokes}
Names == {"Triangle", "Arrow"}

\* ------------------------------------------------------------------- state
VARIABLES
    recognizer,   \* the class of the recognizer: "OneDollar" or "QDollar"
    Templates,    \* this.Templates
    lastCall,     \* the last call made: its operation and arguments
    lastResult,   \* what that call returned, or that it threw
    argument,     \* the caller's array as that call left it
    calls,        \* the number of calls made
    input,        \* the arguments of a method called on its own
    output        \* what that method returned

\* The state of the web touch controller server (qdollar.js:248-669).
VARIABLES
    roomStates,       \* the Map roomStates: room code -> room state
    socketStatus,     \* each socket id: "new", "connected" or "closed"
    currentRoomCode,  \* each connection's closure variable currentRoomCode
    joined,           \* the rooms each socket has joined with socket.join
    emitted,          \* the messages the last handler emitted, in order
    lastEvent,        \* the event the last handler received
    events,           \* the number of events the server has handled
    assignedRoomCode, \* the room code each socket's app client holds
    controllerView    \* the controllerState each socket's controller client shows

recognizerVars ==
    <<recognizer, Templates, lastCall, lastResult, argument, calls, input, output>>
relayVars ==
    <<roomStates, socketStatus, currentRoomCode, joined, emitted, lastEvent, events,
      assignedRoomCode, controllerView>>

\* The state of the page that shows the viewport (webTouchClient.js:218-589)
\* and of the connection between the page and the server.
VARIABLES
    sessionStorage,   \* window.sessionStorage[SESSION_STORAGE_KEY], "" when absent
    client,           \* createAppClient: its socket's id (0: none), currentRoomId
    viewport,         \* initWebTouchViewport: assignedRoomCode, the window, the cursor
    outbox,           \* what the page has emitted and the server has yet to handle
    inbox,            \* what the page's socket has received and has yet to handle
    requests,         \* the events the page has emitted since its socket connected
    pageEvent         \* the event the page handled last; tick changes with each

pageVars == <<sessionStorage, client, viewport, outbox, inbox, requests, pageEvent>>

\* The state of the page with the drawing canvas (part_000:1-123).
VARIABLES
    isDrawing,      \* isDrawing
    ink,            \* the segments painted on the canvas since resetCanvas
    predictionEl,   \* what predictionEl.innerText shows
    confidenceEl,   \* what confidenceEl.innerText shows
    inFlight,       \* the calls of sendToModel that await their response
    sent,           \* the number of calls of sendToModel
    strokes,        \* the number of strokes started
    latest,         \* the user's last action: a stroke that ended, or a clear
    canvasEvent     \* the event the canvas page handled last

canvasVars ==
    <<isDrawing, ink, predictionEl, confidenceEl, inFlight, sent, strokes, latest,
      canvasEvent>>
vars == <<recognizerVars, relayVars, pageVars, canvasVars>>

\* The socket ids of the connections the server sees; a socket id is never
\* used twice.
NumSockets == 3
\* The number of events the server handles.
MaxEvents == 7
Sockets == 1..NumSockets

\* The options of the server: room codes of codeLength letters of alphabet.
codeLength == 1
alphabet == {"A", "B"}

RECURSIVE Words(_)
\* The strings generateRoomCode can return after n rounds of its loop.
Words(n) ==
    IF n = 0 THEN {""} ELSE {code \o letter : code \in Words(n - 1), letter \in alphabet}

\* The room codes generateRoomCode can produce, and the room ids a client
\* sends: a code, a code in lower case, or none.
RoomCodes == Words(codeLength)
RoomIds == {"A", "b", ""}

\* String.prototype.toUpperCase on the strings of the model.
toUpperCase(str) ==
    CASE str = "a" -> "A"
      [] str = "b" -> "B"
      [] OTHER -> str

\* null
Null == "null"

\* What roomStates.get answers for a code the Map does not hold.
NoRoom ==
    [appSocketId |-> 0,
     controllerSocketIds |-> <<>>,
     lastKnownCursor |-> [x |-> 0, y |-> 0, isVisible |-> FALSE],
     lastKnownFocusSelector |-> Null,
     lastKnownFocusValue |-> "",
     controllerState |-> [keyboardMode |-> "", isShiftActive |-> FALSE],
     sensitivity |-> 0]

NoEvent == [event |-> "none", socket |-> 0, roomId |-> ""]

\* The server as attachWebTouchController leaves it: no room, no
\* connection.
RelayInit ==
    /\ roomStates = [code \in RoomCodes |-> NoRoom]
    /\ socketStatus = [s \in Sockets |-> "new"]
    /\ currentRoomCode = [s \in Sockets |-> ""]
    /\ joined = [s \in Sockets |-> {}]
    /\ emitted = <<>>
    /\ lastEvent = NoEvent
    /\ events = 0
    /\ assignedRoomCode = [s \in Sockets |-> ""]
    /\ controllerView = [s \in Sockets |-> NoRoom.controllerState]

\* No page has been loaded.
NoClient == [socket |-> 0, currentRoomId |-> Null]
NoViewport ==
    [assignedRoomCode |-> Null, windowWidth |-> 0, windowHeight |-> 0,
     cursorX |-> 0, cursorY |-> 0, cursorVisible |-> FALSE]
NoPageEvent == [event |-> "none", tick |-> 0]

PageInit ==
    /\ sessionStorage = ""
    /\ client = NoClient
    /\ viewport = NoViewport
    /\ outbox = <<>>
    /\ inbox = <<>>
    /\ requests = <<>>
    /\ pageEvent = NoPageEvent

\* What the markup of the canvas page shows before any script has written
\* to an element.
Markup == [shows |-> "markup"]
NoAction == [kind |-> "none", request |-> 0]
NoCanvasEvent == [event |-> "none", wasDrawing |-> FALSE, tick |-> 0]

\* The canvas page once its script has run: resetCanvas() has painted the
\* canvas white.
CanvasInit ==
    /\ isDrawing = FALSE
    /\ ink = 0
    /\ predictionEl = Markup
    /\ confidenceEl = Markup
    /\ inFlight = {}
    /\ sent = 0
    /\ strokes = 0
    /\ latest = NoAction
    /\ canvasEvent = NoCanvasEvent

\* No method has been called on its own.
NoInput == [method |-> "none"]
NoOutput == [method |-> "none"]

NoCall == [op |-> "none", name |-> "", points |-> <<>>]

\* A recognizer as its constructor leaves it.
Init ==
    /\ recognizer \in {"OneDollar", "QDollar"}
    /\ Templates = IF recognizer = "OneDollar"
                   THEN One_constructor(Len(DefaultStrokes))
                   ELSE Q_constructor(Len(DefaultStrokes))
    /\ lastCall = NoCall
    /\ lastResult = [kind |-> "none", name |-> "", score |-> Zero]
    /\ argument = <<>>
    /\ calls = 0
    /\ input = NoInput
    /\ output = NoOutput
    /\ RelayInit
    /\ PageInit
    /\ CanvasInit

\* OneCheck keeping the checked stroke as a template of its own.
OneCheckStoring(points) ==
    /\ recognizer = "OneDollar"
    /\ calls < MaxCalls
    /\ \E out \in {One_check(Templates, points)} :
           /\ lastResult' = out.result
           /\ argument' = out.points
    /\ Templates' = One_add(Templates, "", points).Templates
    /\ lastCall' = [op |-> "check", name |-> "", points |-> points]
    /\ calls' = calls + 1
    /\ UNCHANGED <<recognizer, input, output>>
    /\ UNCHANGED <<relayVars, pageVars, canvasVars>>

OneCheck(points) ==
    /\ recognizer = "OneDollar"
    /\ calls < MaxCalls
    /\ \E out \in {One_check(Templates, points)} :
           /\ lastResult' = out.result
           /\ argument' = out.points
    /\ lastCall' = [op |-> "check", name |-> "", points |-> points]
    /\ calls' = calls + 1
    /\ UNCHANGED <<recognizer, Templates, input, output>>
    /\ UNCHANGED <<relayVars, pageVars, canvasVars>>

OneAdd(name, points) ==
    /\ recognizer = "OneDollar"
    /\ calls < MaxCalls
    /\ \E out \in {One_add(Templates, name, points)} :
           /\ lastResult' = out.result
           /\ argument' = out.points
           /\ Templates' = out.Templates
    /\ lastCall' = [op |-> "add", name |-> name, points |-> points]
    /\ calls' = calls + 1
    /\ UNCHANGED <<recognizer, input, output>>
    /\ UNCHANGED <<relayVars, pageVars, canvasVars>>

QCheck(points) ==
    /\ recognizer = "QDollar"
    /\ calls < MaxCalls
    /\ \E out \in {Q_check(Templates, points)} :
           /\ lastResult' = out.result
           /\ argument' = out.points
    /\ lastCall' = [op |-> "check", name |-> "", points |-> points]
    /\ calls' = calls + 1
    /\ UNCHANGED <<recognizer, Templates, input, output>>
    /\ UNCHANGED <<relayVars, pageVars, canvasVars>>

QAdd(name, points) ==
    /\ recognizer = "QDollar"
    /\ calls < MaxCalls
    /\ \E out \in {Q_add(Templates, name, points)} :
           /\ lastResult' = out.result
           /\ argument' = out.points
           /\ Templates' = out.Templates
    /\ lastCall' = [op |-> "add", name |-> name, points |-> points]
    /\ calls' = calls + 1
    /\ UNCHANGED <<recognizer, input, output>>
    /\ UNCHANGED <<relayVars, pageVars, canvasVars>>

Next ==
    \/ \E points \in RawStrokes : OneCheck(points)
    \/ \E name \in Names, points \in RawStrokes : OneAdd(name, points)
    \/ \E points \in RawStrokes : QCheck(points)
    \/ \E name \in Names, points \in RawStrokes : QAdd(name, points)

Spec == Init /\ [][Next]_vars

\* ------------------------------------------------------------------ claims
\* A stroke with at least two distinct points.
ValidStroke(points) ==
    /\ Len(points) >= 2
    /\ \E i, j \in 1..Len(points) : points[i] # points[j]

\* A stroke all of whose points coincide (zero path length).
CoincidentStroke(points) ==
    /\ Len(points) >= 1
    /\ \A i \in 1..Len(points) : points[i] = points[1]

\* The candidate as check hands it to the template loop.
Candidate(points) ==
    IF recognizer = "OneDollar"
    THEN One_normalize(One_resample(One_convertPoints(points), NumPoints).newPoints)
    ELSE Q_normalize(Q_resample(Q_convertPoints(points), NumPoints).newPoints)

\* The matcher distance of a normalized candidate to the template T: the
\* angle search of OneDollar, the cloud distance of QDollar run to completion.
MatcherDistance(cand, T) ==
    IF recognizer = "OneDollar"
    THEN One_distanceAtBestAngle(cand, T, Num(-AngleRange), Num(AngleRange),
                                 Num(AnglePrecision))
    ELSE Q_cloudDistance(cand, T.Points, NaN)

\* The matcher distances of the stroke points to the stored templates.
Distances(points) ==
    LET To(cand) == [i \in 1..Len(Templates) |-> MatcherDistance(cand, Templates[i])]
    IN  To(Candidate(points))

\* i is the earliest index at which the distances ds take their least value.
EarliestLeast(ds, i) ==
    /\ ds[i] # Threw
    /\ ~IsNaN(ds[i])
    /\ \A j \in 1..Len(ds) : ds[j] # Threw /\ ~Lt(ds[j], ds[i])
    /\ \A j \in 1..(i - 1) : ds[j] # ds[i]

\* The last call was a check of a valid stroke against a non-empty store.
ValidCheck ==
    /\ lastCall.op = "check"
    /\ ValidStroke(lastCall.points)
    /\ Len(Templates) > 0

\* The name returned by the last call is that of the earliest template at
\* the least of the distances ds.
NameOfEarliestLeast(ds) ==
    /\ lastResult.kind = "returned"
    /\ \E i \in 1..Len(Templates) :
          EarliestLeast(ds, i) /\ lastResult.name = Templates[i].Name

\* Every stored template has NumPoints points with finite coordinates.
WellFormedStore ==
    \A i \in 1..Len(Templates) :
        Len(Templates[i].Points) = NumPoints /\ AllFinitePoints(Templates[i].Points)

\* C1: after a check of a valid stroke (its normalized points finite)
\* against a non-empty store, the call has returned the Name of the template
\* at the least matcher distance, the earliest such template when several
\* share it.
C1_NameOfNearestTemplate ==
    (ValidCheck /\ AllFinitePoints(Candidate(lastCall.points)))
        => NameOfEarliestLeast(Distances(lastCall.points))

\* C1 on the states in which every stored template is well formed: there
\* the name returned is that of the earliest nearest template.
C1_NameOfNearestInWellFormedStore ==
    (ValidCheck /\ WellFormedStore /\ AllFinitePoints(Candidate(lastCall.points)))
        => NameOfEarliestLeast(Distances(lastCall.points))

\* C2: after a check of a stroke whose points all coincide the call has
\* failed: it has returned no recognition result.
C2_CoincidentStrokeRejected ==
    (lastCall.op = "check" /\ Len(lastCall.points) >= 2
        /\ CoincidentStroke(lastCall.points))
        => lastResult.kind # "returned"

\* A recognizer whose store holds no template: Templates is an ordinary
\* property of the object, emptied by its owner after construction.
InitBare ==
    /\ recognizer \in {"OneDollar", "QDollar"}
    /\ Templates = <<>>
    /\ lastCall = NoCall
    /\ lastResult = [kind |-> "none", name |-> "", score |-> Zero]
    /\ argument = <<>>
    /\ calls = 0
    /\ input = NoInput
    /\ output = NoOutput
    /\ RelayInit
    /\ PageInit
    /\ CanvasInit

SpecBare == InitBare /\ [][Next]_vars

ScaleStep(points) ==
    IF recognizer = "OneDollar"
    THEN LET Derotated(resampled) ==
                 One_scaleTo(One_rotateBy(resampled,
                                          Neg(One_indicativeAngle(resampled))),
                             Num(SquareSize))
         IN  Derotated(One_resample(One_convertPoints(points), NumPoints).newPoints)
    ELSE Q_scale(Q_resample(Q_convertPoints(points), NumPoints).newPoints)

\* A stroke along a horizontal line, drawn from left to right.
HorizontalStroke(points) ==
    /\ ValidStroke(points)
    /\ \A i \in 1..Len(points) : points[i].y = points[1].y
    /\ \A i \in 2..Len(points) : ~Lt(points[i].x, points[i - 1].x)

\* C4: for a horizontal stroke with two distinct points given to check or
\* add, every coordinate the scale step hands on is finite.
C4_ScaleStepFinite ==
    (lastCall.op \in {"check", "add"} /\ HorizontalStroke(lastCall.points))
        => AllFinitePoints(ScaleStep(lastCall.points))

\* QDollar.check with the early-termination test of _cloudDistance removed:
\* the template loop with every cloud distance computed to completion (NaN
\* is never reached by a sum, so the test never fires).
RECURSIVE Unpruned_checkLoop(_, _, _, _, _)
Unpruned_checkLoop(templates, processedPoints, i, minDistance, best) ==
    IF i > Len(templates)
    THEN [threw |-> FALSE, minDistance |-> minDistance, best |-> best]
    ELSE LET Compare(d) ==
                 IF d = Threw
                 THEN [threw |-> TRUE, minDistance |-> minDistance, best |-> best]
                 ELSE IF Lt(d, minDistance)
                      THEN Unpruned_checkLoop(templates, processedPoints, i + 1, d, i)
                      ELSE Unpruned_checkLoop(templates, processedPoints, i + 1,
                                              minDistance, best)
         IN  Compare(Q_cloudMatch(processedPoints, templates[i], NaN))

\* What the unpruned run answers for the stroke points: that it threw, "No
\* match", or the name of the template selected.
Unpruned_answer(templates, points) ==
    IF Len(points) = 0 THEN [kind |-> "threw", name |-> ""]
    ELSE LET Answer(loop) ==
                 IF loop.threw THEN [kind |-> "threw", name |-> ""]
                 ELSE [kind |-> "returned",
                       name |-> IF loop.best # 0 THEN templates[loop.best].Name
                                ELSE "No match"]
         IN  Answer(Unpruned_checkLoop(
                        templates,
                        Q_normalize(Q_resample(Q_convertPoints(points),
                                               NumPoints).newPoints),
                        1, PosInf, 0))

\* C5: what a QDollar check answers (the name of the template selected, or
\* that the call threw) is what the same check answers with the
\* early-termination test removed.
C5_PruningKeepsSelection ==
    (recognizer = "QDollar" /\ lastCall.op = "check")
        => [kind |-> lastResult.kind, name |-> lastResult.name]
               = Unpruned_answer(Templates, lastCall.points)

\* The early-termination test fired on template i during the check of the
\* stroke points: the distance _cloudMatch returned is not the distance
\* computed to completion.
PrunedAt(points, i) ==
    LET Cut(cand, minSoFar) ==
            Q_cloudMatch(cand, Templates[i], minSoFar)
                # Q_cloudMatch(cand, Templates[i], NaN)
        Upto(cand) ==
            Cut(cand, Q_checkLoop(SubSeq(Templates, 1, i - 1), cand, 1,
                                  PosInf, 0).minDistance)
    IN  Upto(Q_normalize(Q_resample(Q_convertPoints(points), NumPoints).newPoints))

\* C5 witness: a QDollar check of a valid stroke has returned a name after
\* the early-termination test cut a template's matching short.
C5_Witness ==
    /\ recognizer = "QDollar"
    /\ lastCall.op = "check"
    /\ ValidStroke(lastCall.points)
    /\ lastResult.kind = "returned"
    /\ \E i \in 1..Len(Templates) : PrunedAt(lastCall.points, i)

\* The arrays _resample is given on its own: {x, y} records on the grid,
\* at least two of them distinct, all of one stroke.
ResampleInputs ==
    {AsRecords(s) : s \in {t \in GridSeqs(MaxInputLen) :
                              /\ Len(t) >= 2
                              /\ \E i, j \in 1..Len(t) : t[i] # t[j]}}

\* _resample is about to be called with an array and a target count.
InitResample ==
    /\ recognizer \in {"OneDollar", "QDollar"}
    /\ Templates = <<>>
    /\ lastCall = NoCall
    /\ lastResult = [kind |-> "none", name |-> "", score |-> Zero]
    /\ argument = <<>>
    /\ calls = 0
    /\ input \in {[method |-> "_resample", points |-> p, n |-> n] :
                     p \in ResampleInputs, n \in 3..MaxTarget}
    /\ output = NoOutput
    /\ RelayInit
    /\ PageInit
    /\ CanvasInit

\* OneDollar._resample(points, n)
OneResample ==
    /\ recognizer = "OneDollar"
    /\ input.method = "_resample"
    /\ output = NoOutput
    /\ output' = [method |-> "_resample",
                  newPoints |-> One_resample(input.points, input.n).newPoints]
    /\ UNCHANGED <<recognizer, Templates, lastCall, lastResult, argument, calls, input>>
    /\ UNCHANGED <<relayVars, pageVars, canvasVars>>

\* QDollar._resample(points, n)
QResample ==
    /\ recognizer = "QDollar"
    /\ input.method = "_resample"
    /\ output = NoOutput
    /\ output' = [method |-> "_resample",
                  newPoints |-> Q_resample(input.points, input.n).newPoints]
    /\ UNCHANGED <<recognizer, Templates, lastCall, lastResult, argument, calls, input>>
    /\ UNCHANGED <<relayVars, pageVars, canvasVars>>

NextResample == OneResample \/ QResample

SpecResample == InitResample /\ [][NextResample]_vars

\* C6: _resample, given a stroke with two distinct points and a target
\* count n >= 3, has returned exactly n points.
C6_ResampleCount ==
    (output.method = "_resample" /\ ValidStroke(input.points) /\ input.n >= 3)
        => Len(output.newPoints) = input.n

\* C6 witness: _resample has returned for an array of more points than the
\* target count.
C6_Witness ==
    /\ output.method = "_resample"
    /\ ValidStroke(input.points)
    /\ Len(input.points) > input.n
    /\ Len(output.newPoints) = input.n

\* C7: every entry of Templates has a Name and a Points path of exactly
\* NumPoints points.
C7_TemplatesFullyConstructed ==
    \A i \in 1..Len(Templates) :
        /\ {"Name", "Points"} \subseteq DOMAIN Templates[i]
        /\ Len(Templates[i].Points) = NumPoints

C10_ArgumentUntouched ==
    (lastCall.op \in {"check", "add"} /\ ValidStroke(lastCall.points))
        => argument = lastCall.points

\* C11: every result check returns carries a similarity score in [0, 1]: a
\* finite number, never negative and never greater than 1, for the angle
\* search of OneDollar and for the cloud match of QDollar.
C11_ScoreInUnitInterval ==
    (lastCall.op = "check" /\ lastResult.kind = "returned")
        => /\ IsFinite(lastResult.score)
           /\ lastResult.score.v >= 0
           /\ lastResult.score.v <= Unit

\* C11 witness: check of a valid stroke has returned a score strictly
\* between 0 and 1.
C11_Witness ==
    /\ lastCall.op = "check"
    /\ ValidStroke(lastCall.points)
    /\ lastResult.kind = "returned"
    /\ IsFinite(lastResult.score)
    /\ lastResult.score.v > 0
    /\ lastResult.score.v < Unit

\* An element of a point array that is neither an array nor an {x, y}
\* record: an object without x and y, such as {}.  Its x, y, [0] and [1]
\* are undefined.
Other == [kind |-> "other", x |-> NaN, y |-> NaN, id |-> 0]

\* Arrays a caller may pass besides well-formed strokes: empty, of one
\* point, with a NaN or infinite coordinate, with an element that is no
\* point (after a valid first point, and as the first element), next to two
\* well-formed strokes.
LooseStrokes ==
    { <<>>,
      <<Pair(Num(0), Num(0))>>,
      <<Rec(Num(0), Num(0), 0)>>,
      <<Pair(Num(0), Num(0)), Pair(Num(1), Num(0)), Pair(Num(1), Num(1))>>,
      <<Rec(Num(0), Num(0), 0), Rec(Num(0), Num(1), 0), Rec(Num(1), Num(0), 0)>>,
      <<Pair(Num(0), Num(0)), Pair(NaN, Num(1)), Pair(Num(1), Num(1))>>,
      <<Pair(Num(0), Num(0)), Pair(Num(1), PosInf)>>,
      <<Rec(Num(0), Num(0), 0), Rec(Num(1), NaN, 0), Rec(Num(1), Num(1), 0)>>,
      <<Pair(Num(0), Num(0)), Other, Pair(Num(1), Num(1))>>,
      <<Rec(Num(0), Num(0), 0), Rec(Num(1), Num(0), 0), Other>>,
      <<Other, Pair(Num(1), Num(0)), Pair(Num(1), Num(1))>> }

\* The calls of Next, given any of the arrays of LooseStrokes.
NextLoose ==
    \/ \E points \in LooseStrokes : OneCheck(points)
    \/ \E name \in Names, points \in LooseStrokes : OneAdd(name, points)
    \/ \E points \in LooseStrokes : QCheck(points)
    \/ \E name \in Names, points \in LooseStrokes : QAdd(name, points)

SpecLoose == Init /\ [][NextLoose]_vars

\* The array holds a pair or a record with a coordinate that is not finite.
NonFiniteCoordinate(points) ==
    \E i \in 1..Len(points) :
        /\ points[i].kind \in {"pair", "record"}
        /\ ~(IsFinite(points[i].x) /\ IsFinite(points[i].y))

\* C12: a call of check or add given fewer than 2 points, or a point with
\* a coordinate that is not finite, has failed: it has returned nothing
\* and (first call on the recognizer) the store holds the default
\* templates only.
C12_InvalidInputRejected ==
    (lastCall.op \in {"check", "add"}
        /\ (Len(lastCall.points) < 2 \/ NonFiniteCoordinate(lastCall.points)))
        => /\ lastResult.kind = "threw"
           /\ calls = 1 => Len(Templates) = Len(DefaultStrokes)

\* An element of the array is neither a pair nor a record.
MalformedPoint(points) ==
    \E i \in 1..Len(points) : points[i].kind \notin {"pair", "record"}

\* C13: a call of check or add given an array with an element that is
\* neither a pair nor a record has failed instead of processing the
\* array: it has returned nothing and (first call on the recognizer) the
\* store holds the default templates only.
C13_MalformedPointRejected ==
    (lastCall.op \in {"check", "add"} /\ MalformedPoint(lastCall.points))
        => /\ lastResult.kind = "threw"
           /\ calls = 1 => Len(Templates) = Len(DefaultStrokes)

\* check and add of the recognizer's class.
Check(templates, points) ==
    IF recognizer = "OneDollar" THEN One_check(templates, points)
    ELSE Q_check(templates, points)
Add(templates, name, points) ==
    IF recognizer = "OneDollar" THEN One_add(templates, name, points)
    ELSE Q_add(templates, name, points)

\* The same coordinates in the other representation: [x, y] pairs as
\* {x, y} records and records as pairs.
Twin(points) ==
    [i \in 1..Len(points) |->
        IF points[i].kind = "pair" THEN Rec(points[i].x, points[i].y, 0)
        ELSE Pair(points[i].x, points[i].y)]

\* C14: check answers for a stroke what it answers for the same
\* coordinates in the other representation (pairs for records, records for
\* pairs), name and score; and after add of a stroke, check of the stroke
\* answers what it answers when both calls are given the other
\* representation.
C14_PairsAndRecordsAgree ==
    /\ lastCall.op = "check"
          => lastResult = Check(Templates, Twin(lastCall.points)).result
    /\ (lastCall.op = "add" /\ lastResult.kind = "returned")
          => LET Before == SubSeq(Templates, 1, Len(Templates) - 1)
                 Same(twin, twinStore) ==
                     Check(Templates, lastCall.points).result
                         = Check(twinStore, twin).result
                 InOtherForm(twin) ==
                     Same(twin, Add(Before, lastCall.name, twin).Templates)
             IN  InOtherForm(Twin(lastCall.points))

\* C14 witness: on a store that add had extended, check of a valid
\* stroke given as records has returned a score strictly between 0 and 1.
C14_Witness ==
    /\ lastCall.op = "check"
    /\ ValidStroke(lastCall.points)
    /\ lastCall.points[1].kind = "record"
    /\ Len(Templates) > Len(DefaultStrokes)
    /\ lastResult.kind = "returned"
    /\ lastResult.score.v > 0
    /\ lastResult.score.v < Unit

\* The while loop of _distanceAtBestAngle once more, keeping what it does
\* not return: the angles handed to _distanceAtAngle (and by it to
\* _rotateBy) and the bracket [a, b] at exit.
RECURSIVE One_searchTrace(_, _, _, _, _, _, _, _, _, _)
One_searchTrace(points, T, a, b, x1, f1, x2, f2, threshold, angles) ==
    IF ~Lt(threshold, MathAbs(Minus(b, a)))
    THEN [angles |-> angles, a |-> a, b |-> b]
    ELSE IF Lt(f1, f2)
         THEN LET Lower(nx1) ==
                      One_searchTrace(points, T, a, x2, nx1,
                                      One_distanceAtAngle(points, T, nx1), x1, f1,
                                      threshold, angles \cup {nx1})
              IN  Lower(Plus(Times(Phi, a), Times(Minus(Num(1), Phi), x2)))
         ELSE LET Upper(nx2) ==
                      One_searchTrace(points, T, x1, b, x2, f2, nx2,
                                      One_distanceAtAngle(points, T, nx2),
                                      threshold, angles \cup {nx2})
              IN  Upper(Plus(Times(Minus(Num(1), Phi), x1), Times(Phi, b)))

\* The trial angles and the last bracket of the search check runs for the
\* candidate points against the template T (onedollar.js:58-64).
One_trialAngles(points, T) ==
    LET Search(a, b, x1, x2) ==
            One_searchTrace(points, T, a, b, x1, One_distanceAtAngle(points, T, x1),
                            x2, One_distanceAtAngle(points, T, x2),
                            Num(AnglePrecision), {x1, x2})
        From(a, b) ==
            Search(a, b, Plus(Times(Phi, a), Times(Minus(Num(1), Phi), b)),
                   Plus(Times(Minus(Num(1), Phi), a), Times(Phi, b)))
    IN  From(Num(-AngleRange), Num(AngleRange))

\* d degrees in radians, the unit Math.cos and Math.sin take.
Deg2Rad(d) == Fin((d * PiV) \div 180)

\* C15: in a OneDollar check of a valid stroke, for every stored template
\* of NumPoints points, every trial angle handed to the rotation step lies
\* within [-pi/4, +pi/4] radians, and the bracket the search stops with is
\* no wider than 2 degrees.
C15_SearchWithin45Degrees ==
    (recognizer = "OneDollar" /\ lastCall.op = "check"
        /\ ValidStroke(lastCall.points))
        => LET Bounded(trace) ==
                   /\ \A angle \in trace.angles :
                          /\ Ge(angle, Deg2Rad(-45))
                          /\ Ge(Deg2Rad(45), angle)
                   /\ Ge(Deg2Rad(2), MathAbs(Minus(trace.b, trace.a)))
               Searches(cand) ==
                   \A i \in 1..Len(Templates) :
                       Len(Templates[i].Points) = NumPoints
                           => Bounded(One_trialAngles(cand, Templates[i]))
           IN  Searches(Candidate(lastCall.points))

\* Strokes anywhere on the grid, drawn in either direction: every two
\* distinct grid points, and the strokes of the default templates.
PlaneStrokes ==
    {AsPairs(s) : s \in {t \in GridSeqs(2) : Len(t) = 2 /\ t[1] # t[2]}}
        \cup {DefaultStrokes[i].points : i \in 1..Len(DefaultStrokes)}

\* The calls of Next, given the strokes of PlaneStrokes.
NextPlane ==
    \/ \E points \in PlaneStrokes : OneCheck(points)
    \/ \E name \in Names, points \in PlaneStrokes : OneAdd(name, points)
    \/ \E points \in PlaneStrokes : QCheck(points)
    \/ \E name \in Names, points \in PlaneStrokes : QAdd(name, points)

SpecPlane == Init /\ [][NextPlane]_vars

\* The stroke with every point moved by (dx, dy).
Shift(points, dx, dy) ==
    [i \in 1..Len(points) |->
        [points[i] EXCEPT !.x = Plus(@, dx), !.y = Plus(@, dy)]]

\* The stroke with every coordinate multiplied by k.
Scale(points, k) ==
    [i \in 1..Len(points) |->
        [points[i] EXCEPT !.x = Times(@, k), !.y = Times(@, k)]]

\* The score difference allowed for the rounding of the arithmetic: 0.01.
ScoreTolerance == Unit \div 100

\* Two results of check agree: both threw, or both returned the same name
\* with scores no further apart than ScoreTolerance.
SameAnswer(r1, r2) ==
    /\ r1.kind = r2.kind
    /\ r1.name = r2.name
    /\ IsFinite(r1.score) /\ IsFinite(r2.score)
    /\ AbsInt(r1.score.v - r2.score.v) <= ScoreTolerance

\* The offsets and factors a stroke is moved and scaled by.
Offsets == {<<Num(1), Num(0)>>, <<Num(0), Num(1)>>, <<Num(-1), Num(-1)>>}
Factors == {Num(2), Num(3)}

\* C16: check of a valid stroke answers, for the stroke moved by any
\* offset, what it answers for the stroke itself: the same name and the
\* same score (up to the rounding of the arithmetic), in both recognizers.
C16_TranslationInvariant ==
    (lastCall.op = "check" /\ ValidStroke(lastCall.points))
        => \A o \in Offsets :
               SameAnswer(lastResult,
                          Check(Templates, Shift(lastCall.points, o[1], o[2])).result)

\* C17: check of a valid stroke answers, for the stroke scaled by any
\* positive factor, what it answers for the stroke itself: the same name
\* and the same score (up to the rounding of the arithmetic), in both
\* recognizers.
C17_ScaleInvariant ==
    (lastCall.op = "check" /\ ValidStroke(lastCall.points))
        => \A k \in Factors :
               SameAnswer(lastResult,
                          Check(Templates, Scale(lastCall.points, k)).result)

\* The path add stores for the stroke points.
StoredPath(points) == Add(<<>>, "", points).Templates[1].Points

\* Two stored paths with the same coordinates, point by point.
SamePath(p, q) ==
    /\ Len(p) = Len(q)
    /\ \A i \in 1..Len(p) : p[i].x = q[i].x /\ p[i].y = q[i].y

\* C18: check of a valid stroke, on a store in which add has registered
\* that stroke, has returned the name of its template (the earliest one
\* when several templates hold that path) with a score of at least 0.99.
C18_SelfMatch ==
    (lastCall.op = "check" /\ ValidStroke(lastCall.points))
        => LET Own(path) ==
                   \A i \in 1..Len(Templates) :
                       (/\ SamePath(Templates[i].Points, path)
                        /\ \A j \in 1..(i - 1) : ~SamePath(Templates[j].Points, path))
                           => /\ lastResult.kind = "returned"
                              /\ lastResult.name = Templates[i].Name
                              /\ IsFinite(lastResult.score)
                              /\ lastResult.score.v * 100 >= 99 * Unit
           IN  Own(StoredPath(lastCall.points))

\* The stroke turned about the point (cx, cy) by radians.
Rotate(points, cx, cy, radians) ==
    LET Turn(p, dx, dy, cos, sin) ==
            [p EXCEPT !.x = Plus(Minus(Times(dx, cos), Times(dy, sin)), cx),
                      !.y = Plus(Plus(Times(dx, sin), Times(dy, cos)), cy)]
        About(cos, sin) ==
            [i \in 1..Len(points) |->
                Turn(points[i], Minus(points[i].x, cx), Minus(points[i].y, cy),
                     cos, sin)]
    IN  About(MathCos(radians), MathSin(radians))

\* The centres and the angles (within the search bound of 45 degrees) a
\* stroke is turned about and by.
Centres == {<<Num(0), Num(0)>>, <<Num(1), Num(1)>>}
Turns == {Deg2Rad(45), Deg2Rad(30), Neg(Deg2Rad(30))}

\* C19: OneDollar's check of a valid stroke answers, for the stroke turned
\* about any centre by any angle within the search bound, what it answers
\* for the stroke itself: the same name and a score no further than 0.01
\* away.
C19_RotationInvariant ==
    (recognizer = "OneDollar" /\ lastCall.op = "check" /\ ValidStroke(lastCall.points))
        => \A c \in Centres, r \in Turns :
               SameAnswer(lastResult,
                          Check(Templates, Rotate(lastCall.points, c[1], c[2], r)).result)

\* ------------------------------------------- web touch controller server
defaultSensitivity == 2

createInitialRoomState(appSocketId) ==
    [appSocketId |-> appSocketId,
     controllerSocketIds |-> <<>>,
     lastKnownCursor |-> [x |-> 400, y |-> 300, isVisible |-> FALSE],
     lastKnownFocusSelector |-> Null,
     lastKnownFocusValue |-> "",
     controllerState |-> [keyboardMode |-> "letters", isShiftActive |-> FALSE],
     sensitivity |-> defaultSensitivity]

\* roomStates.get(code): the room state, NoRoom when there is none.
GetRoom(rooms, code) == IF code \in RoomCodes THEN rooms[code] ELSE NoRoom
\* roomStates.has(code)
HasRoom(rooms, code) == GetRoom(rooms, code) # NoRoom

\* A Set of socket ids in insertion order: has, add and delete.
SetHas(ids, sid) == \E i \in 1..Len(ids) : ids[i] = sid
SetAdd(ids, sid) == IF SetHas(ids, sid) THEN ids ELSE Append(ids, sid)
SetDelete(ids, sid) == SelectSeq(ids, LAMBDA x : x # sid)

\* A message emitted to the socket (or the room of the socket) to.
Msg(to, event, payload) == [to |-> to, event |-> event, payload |-> payload]

getInitialStateForApp(roomState) ==
    [cursor |-> roomState.lastKnownCursor,
     focusedElementSelector |-> roomState.lastKnownFocusSelector,
     focusedElementValue |-> roomState.lastKnownFocusValue,
     hoveredElementSelector |-> Null]

\* The messages of broadcastControllerStateToRoom for the room state.
broadcastControllerStateToRoom(roomState) ==
    [i \in 1..Len(roomState.controllerSocketIds) |->
        Msg(roomState.controllerSocketIds[i], "update_controller_state",
            [controllerState |-> roomState.controllerState])]

\* The test each controller action makes before it forwards anything: the
\* room exists and the sender is one of its controllers.
IsRoomControllerAnySender(roomState, sid) == roomState # NoRoom
IsRoomController(roomState, sid) ==
    roomState # NoRoom /\ SetHas(roomState.controllerSocketIds, sid)

\* io.sockets.sockets.get(sid) finds a socket.
SocketFound(status, sid) == sid \in Sockets /\ status[sid] = "connected"

\* The handler of disconnect for the socket sid whose currentRoomCode is
\* code, the socket already closed in status: the rooms, the joined rooms
\* and the messages it leaves.
OnDisconnect(rooms, status, joins, sid, code) ==
    LET roomState == GetRoom(rooms, code)
        Unchanged == [roomStates |-> rooms, joined |-> joins, emitted |-> <<>>]
        AppLeft(found) ==
            [roomStates |-> [rooms EXCEPT ![code] = NoRoom],
             joined |-> [t \in Sockets |->
                            IF SetHas(found, t) THEN joins[t] \ {code} ELSE joins[t]],
             emitted |-> [i \in 1..Len(found) |->
                             Msg(found[i], "app_disconnected", Null)]]
        ControllerLeft(remaining) ==
            IF Len(remaining) = 0 /\ roomState.lastKnownCursor.isVisible
            THEN [roomStates |->
                      [rooms EXCEPT ![code].controllerSocketIds = remaining,
                                    ![code].lastKnownCursor.isVisible = FALSE],
                  joined |-> joins,
                  emitted |-> <<Msg(roomState.appSocketId,
                                    "set_cursor_visibility", FALSE)>>]
            ELSE [roomStates |->
                      [rooms EXCEPT ![code].controllerSocketIds = remaining],
                  joined |-> joins,
                  emitted |-> <<>>]
    IN  IF code = "" \/ roomState = NoRoom THEN Unchanged
        ELSE IF sid = roomState.appSocketId
        THEN AppLeft(SelectSeq(roomState.controllerSocketIds,
                               LAMBDA t : SocketFound(status, t)))
        ELSE IF SetHas(roomState.controllerSocketIds, sid)
        THEN ControllerLeft(SetDelete(roomState.controllerSocketIds, sid))
        ELSE Unchanged

\* The event the handler of socket sid received.
Event(event, sid, roomId) == [event |-> event, socket |-> sid, roomId |-> roomId]

\* The key_input event the handler of socket sid received, with the fields
\* of data it reads: targetMode is read for ToggleMode only.
KeyEvent(sid, roomId, key, targetMode) ==
    [event |-> "key_input", socket |-> sid, roomId |-> roomId, key |-> key,
     targetMode |-> IF key = "ToggleMode" THEN targetMode ELSE ""]

RECURSIVE Received(_, _, _, _)
\* What the controller clients show once the messages msgs[i..] have
\* reached the sockets that are connected, in the order they were emitted.
Received(view, msgs, status, i) ==
    IF i > Len(msgs) THEN view
    ELSE Received(IF msgs[i].event = "update_controller_state"
                     /\ SocketFound(status, msgs[i].to)
                  THEN [view EXCEPT ![msgs[i].to] = msgs[i].payload.controllerState]
                  ELSE view,
                  msgs, status, i + 1)

\* io.on('connection'): a client connects.
ConnectionHandler(sid) ==
    /\ socketStatus[sid] = "new"
    /\ events' = events + 1
    /\ socketStatus' = [socketStatus EXCEPT ![sid] = "connected"]
    /\ currentRoomCode' = [currentRoomCode EXCEPT ![sid] = ""]
    /\ emitted' = <<>>
    /\ lastEvent' = Event("connection", sid, "")
    /\ UNCHANGED <<roomStates, joined, assignedRoomCode>>
    /\ controllerView' = Received(controllerView, emitted', socketStatus', 1)
    /\ UNCHANGED <<recognizerVars, canvasVars>>

\* The server handles the event while it has events left to handle; no
\* page of the model is involved.
Connection(sid) ==
    /\ events < MaxEvents
    /\ ConnectionHandler(sid)
    /\ UNCHANGED pageVars

\* socket.on('disconnect'): the client of socket sid goes away.
DisconnectHandler(sid) ==
    /\ socketStatus[sid] = "connected"
    /\ events' = events + 1
    /\ \E closed \in {[socketStatus EXCEPT ![sid] = "closed"]} :
       \E out \in {OnDisconnect(roomStates, closed,
                                [joined EXCEPT ![sid] = {}],
                                sid, currentRoomCode[sid])} :
           /\ socketStatus' = closed
           /\ roomStates' = out.roomStates
           /\ joined' = out.joined
           /\ emitted' = out.emitted
    /\ lastEvent' = Event("disconnect", sid, "")
    /\ UNCHANGED <<currentRoomCode, assignedRoomCode>>
    /\ controllerView' = Received(controllerView, emitted', socketStatus', 1)
    /\ UNCHANGED <<recognizerVars, canvasVars>>

\* The server handles the event while it has events left to handle; no
\* page of the model is involved.
Disconnect(sid) ==
    /\ events < MaxEvents
    /\ DisconnectHandler(sid)
    /\ UNCHANGED pageVars

\* The numbers of codes generateRoomCode draws for one registration, and
\* the draws.
MaxDraws == 2
Draws == UNION {[1..n -> RoomCodes] : n \in 1..MaxDraws}

\* The code register_app_room settles on when generateRoomCode returns
\* draws[i], draws[i + 1], ...: the first one roomStates does not hold, ""
\* while the loop has found none.
NewRoomCodeNoRetry(rooms, draws, i) == draws[i]
RECURSIVE NewRoomCode(_, _, _)
NewRoomCode(rooms, draws, i) ==
    IF ~HasRoom(rooms, draws[i]) THEN draws[i]
    ELSE IF i < Len(draws) THEN NewRoomCode(rooms, draws, i + 1)
    ELSE ""

\* socket.on('register_app_room'), generateRoomCode returning draws.
RegisterAppRoomHandler(sid, draws) ==
    /\ socketStatus[sid] = "connected"
    /\ events' = events + 1
    /\ \E roomCode \in {NewRoomCode(roomStates, draws, 1)} :
       \E newRoomState \in {createInitialRoomState(sid)} :
           /\ roomCode # ""
           /\ roomStates' = [roomStates EXCEPT ![roomCode] = newRoomState]
           /\ emitted' = <<Msg(sid, "your_room_id", roomCode),
                           Msg(sid, "initial_state",
                               getInitialStateForApp(newRoomState)),
                           Msg(sid, "set_cursor_visibility", FALSE)>>
           /\ currentRoomCode' = [currentRoomCode EXCEPT ![sid] = roomCode]
           /\ joined' = [joined EXCEPT ![sid] = @ \cup {roomCode}]
           /\ assignedRoomCode' =
                  [assignedRoomCode EXCEPT ![sid] = toUpperCase(roomCode)]
    /\ lastEvent' = Event("register_app_room", sid, "")
    /\ UNCHANGED socketStatus
    /\ controllerView' = Received(controllerView, emitted', socketStatus', 1)
    /\ UNCHANGED <<recognizerVars, canvasVars>>

\* The server handles the event while it has events left to handle; no
\* page of the model is involved.
RegisterAppRoom(sid, draws) ==
    /\ events < MaxEvents
    /\ RegisterAppRoomHandler(sid, draws)
    /\ UNCHANGED pageVars

\* socket.on('rejoin_app_room')
RejoinAppRoomHandler(sid, roomCode) ==
    /\ socketStatus[sid] = "connected"
    /\ events' = events + 1
    /\ \E upperRoomCode \in {toUpperCase(roomCode)} :
           IF ~HasRoom(roomStates, upperRoomCode)
           THEN /\ emitted' = <<Msg(sid, "rejoin_failed", upperRoomCode)>>
                /\ assignedRoomCode' = [assignedRoomCode EXCEPT ![sid] = ""]
                /\ UNCHANGED <<roomStates, currentRoomCode, joined>>
           ELSE \E roomState \in {[roomStates[upperRoomCode]
                                       EXCEPT !.appSocketId = sid]} :
                    /\ roomStates' = [roomStates EXCEPT ![upperRoomCode] = roomState]
                    /\ currentRoomCode' =
                           [currentRoomCode EXCEPT ![sid] = upperRoomCode]
                    /\ joined' = [joined EXCEPT ![sid] = @ \cup {upperRoomCode}]
                    /\ assignedRoomCode' =
                           [assignedRoomCode EXCEPT ![sid] = toUpperCase(upperRoomCode)]
                    /\ emitted' =
                           <<Msg(sid, "your_room_id", upperRoomCode),
                             Msg(sid, "initial_state",
                                 getInitialStateForApp(roomState)),
                             Msg(sid, "set_cursor_visibility",
                                 roomState.lastKnownCursor.isVisible)>>
                           \o [i \in 1..Len(roomState.controllerSocketIds) |->
                                  Msg(roomState.controllerSocketIds[i],
                                      "app_reconnected", Null)]
    /\ lastEvent' = Event("rejoin_app_room", sid, roomCode)
    /\ UNCHANGED socketStatus
    /\ controllerView' = Received(controllerView, emitted', socketStatus', 1)
    /\ UNCHANGED <<recognizerVars, canvasVars>>

\* The server handles the event while it has events left to handle; no
\* page of the model is involved.
RejoinAppRoom(sid, roomCode) ==
    /\ events < MaxEvents
    /\ RejoinAppRoomHandler(sid, roomCode)
    /\ UNCHANGED pageVars

\* register_controller_room leaving the socket of a failed join connected.
RegisterControllerRoomKeepSocket(sid, roomCode) ==
    /\ socketStatus[sid] = "connected"
    /\ events < MaxEvents
    /\ events' = events + 1
    /\ \E upperRoomCode \in {toUpperCase(roomCode)} :
           IF ~HasRoom(roomStates, upperRoomCode)
           THEN /\ emitted' = <<Msg(sid, "invalid_room", upperRoomCode)>>
                /\ UNCHANGED <<socketStatus, roomStates, joined, currentRoomCode>>
           ELSE \E cursorVisibilityChanged \in
                       {~roomStates[upperRoomCode].lastKnownCursor.isVisible} :
                \E roomState \in
                       {[roomStates[upperRoomCode] EXCEPT
                            !.controllerSocketIds = SetAdd(@, sid),
                            !.lastKnownCursor.isVisible = TRUE]} :
                    /\ roomStates' = [roomStates EXCEPT ![upperRoomCode] = roomState]
                    /\ currentRoomCode' =
                           [currentRoomCode EXCEPT ![sid] = upperRoomCode]
                    /\ joined' = [joined EXCEPT ![sid] = @ \cup {upperRoomCode}]
                    /\ emitted' =
                           <<Msg(sid, "update_controller_state",
                                 [controllerState |-> roomState.controllerState])>>
                           \o (IF cursorVisibilityChanged
                                  /\ SocketFound(socketStatus, roomState.appSocketId)
                               THEN <<Msg(roomState.appSocketId,
                                          "set_cursor_visibility", TRUE)>>
                               ELSE <<>>)
                    /\ UNCHANGED socketStatus
    /\ lastEvent' = Event("register_controller_room", sid, roomCode)
    /\ UNCHANGED assignedRoomCode
    /\ controllerView' = Received(controllerView, emitted', socketStatus', 1)
    /\ UNCHANGED <<recognizerVars, pageVars, canvasVars>>

\* socket.on('register_controller_room'); socket.disconnect() runs the
\* handler of disconnect.
RegisterControllerRoom(sid, roomCode) ==
    /\ socketStatus[sid] = "connected"
    /\ events < MaxEvents
    /\ events' = events + 1
    /\ \E upperRoomCode \in {toUpperCase(roomCode)} :
           IF ~HasRoom(roomStates, upperRoomCode)
           THEN \E closed \in {[socketStatus EXCEPT ![sid] = "closed"]} :
                \E out \in {OnDisconnect(roomStates, closed,
                                         [joined EXCEPT ![sid] = {}],
                                         sid, currentRoomCode[sid])} :
                    /\ socketStatus' = closed
                    /\ roomStates' = out.roomStates
                    /\ joined' = out.joined
                    /\ emitted' = <<Msg(sid, "invalid_room", upperRoomCode)>>
                                      \o out.emitted
                    /\ UNCHANGED currentRoomCode
           ELSE \E cursorVisibilityChanged \in
                       {~roomStates[upperRoomCode].lastKnownCursor.isVisible} :
                \E roomState \in
                       {[roomStates[upperRoomCode] EXCEPT
                            !.controllerSocketIds = SetAdd(@, sid),
                            !.lastKnownCursor.isVisible = TRUE]} :
                    /\ roomStates' = [roomStates EXCEPT ![upperRoomCode] = roomState]
                    /\ currentRoomCode' =
                           [currentRoomCode EXCEPT ![sid] = upperRoomCode]
                    /\ joined' = [joined EXCEPT ![sid] = @ \cup {upperRoomCode}]
                    /\ emitted' =
                           <<Msg(sid, "update_controller_state",
                                 [controllerState |-> roomState.controllerState])>>
                           \o (IF cursorVisibilityChanged
                                  /\ SocketFound(socketStatus, roomState.appSocketId)
                               THEN <<Msg(roomState.appSocketId,
                                          "set_cursor_visibility", TRUE)>>
                               ELSE <<>>)
                    /\ UNCHANGED socketStatus
    /\ lastEvent' = Event("register_controller_room", sid, roomCode)
    /\ UNCHANGED assignedRoomCode
    /\ controllerView' = Received(controllerView, emitted', socketStatus', 1)
    /\ UNCHANGED <<recognizerVars, pageVars, canvasVars>>

\* A field of data that is not there (undefined).
Missing == [missing |-> TRUE]

\* The report event the handler of socket sid received, with its data.
ReportEvent(event, sid, roomId, data) ==
    [event |-> event, socket |-> sid, roomId |-> roomId, data |-> data]

\* The positions, the focus reports, the pointer deltas and the keys the
\* clients send.
Positions == {[x |-> 0, y |-> 0]}
FocusInfos == {[selector |-> "#q", value |-> "x"]}
Deltas == {[deltaX |-> 1, deltaY |-> 0]}
Keys == {"ToggleMode", "ToggleShift", "a"}
TargetModes == {"numbers", "bogus", ""}
allowedModes == {"letters", "numbers", "symbols2"}
\* The keys with key.length === 1, 'a' <= key <= 'z'.
LowerCaseLetters == {"a", "b"}

\* socket.on('report_cursor_position')
ReportCursorPositionHandler(sid, roomId, pos) ==
    /\ socketStatus[sid] = "connected"
    /\ events' = events + 1
    /\ \E roomState \in {GetRoom(roomStates, toUpperCase(roomId))} :
           IF roomId = "" \/ pos = Missing
              \/ roomState = NoRoom \/ sid # roomState.appSocketId
           THEN UNCHANGED roomStates
           ELSE roomStates' = [roomStates EXCEPT
                                  ![toUpperCase(roomId)].lastKnownCursor.x = pos.x,
                                  ![toUpperCase(roomId)].lastKnownCursor.y = pos.y]
    /\ emitted' = <<>>
    /\ lastEvent' = ReportEvent("report_cursor_position", sid, roomId, pos)
    /\ UNCHANGED <<socketStatus, currentRoomCode, joined, assignedRoomCode>>
    /\ controllerView' = Received(controllerView, emitted', socketStatus', 1)
    /\ UNCHANGED <<recognizerVars, canvasVars>>

\* ReportCursorPosition without the test that the sender is the room's app,
\* the server having events left to handle.
ReportCursorPositionAnySender(sid, roomId, pos) ==
    /\ socketStatus[sid] = "connected"
    /\ events < MaxEvents
    /\ events' = events + 1
    /\ \E roomState \in {GetRoom(roomStates, toUpperCase(roomId))} :
           IF roomId = "" \/ pos = Missing
              \/ roomState = NoRoom
           THEN UNCHANGED roomStates
           ELSE roomStates' = [roomStates EXCEPT
                                  ![toUpperCase(roomId)].lastKnownCursor.x = pos.x,
                                  ![toUpperCase(roomId)].lastKnownCursor.y = pos.y]
    /\ emitted' = <<>>
    /\ lastEvent' = ReportEvent("report_cursor_position", sid, roomId, pos)
    /\ UNCHANGED <<socketStatus, currentRoomCode, joined, assignedRoomCode>>
    /\ controllerView' = Received(controllerView, emitted', socketStatus', 1)
    /\ UNCHANGED <<recognizerVars, pageVars, canvasVars>>

\* The server handles the report while it has events left to handle; no
\* page of the model is involved.
ReportCursorPosition(sid, roomId, pos) ==
    /\ events < MaxEvents
    /\ ReportCursorPositionHandler(sid, roomId, pos)
    /\ UNCHANGED pageVars

\* socket.on('report_focus_change')
ReportFocusChange(sid, roomId, focusInfo) ==
    /\ socketStatus[sid] = "connected"
    /\ events < MaxEvents
    /\ events' = events + 1
    /\ \E roomState \in {GetRoom(roomStates, toUpperCase(roomId))} :
           IF roomId = "" \/ focusInfo = Missing
              \/ roomState = NoRoom \/ sid # roomState.appSocketId
           THEN UNCHANGED roomStates
           ELSE roomStates' =
                    [roomStates EXCEPT
                        ![toUpperCase(roomId)].lastKnownFocusSelector =
                            IF focusInfo.selector = "" THEN Null
                            ELSE focusInfo.selector,
                        ![toUpperCase(roomId)].lastKnownFocusValue =
                            focusInfo.value]
    /\ emitted' = <<>>
    /\ lastEvent' = ReportEvent("report_focus_change", sid, roomId, focusInfo)
    /\ UNCHANGED <<socketStatus, currentRoomCode, joined, assignedRoomCode>>
    /\ controllerView' = Received(controllerView, emitted', socketStatus', 1)
    /\ UNCHANGED <<recognizerVars, pageVars, canvasVars>>

\* socket.on('cursor_move')
CursorMove(sid, roomId, data) ==
    /\ socketStatus[sid] = "connected"
    /\ events < MaxEvents
    /\ events' = events + 1
    /\ \E roomState \in {GetRoom(roomStates, toUpperCase(roomId))} :
           emitted' =
               IF roomId = "" THEN <<>>
               ELSE IF ~IsRoomController(roomState, sid) THEN <<>>
               ELSE IF ~SocketFound(socketStatus, roomState.appSocketId) THEN <<>>
               ELSE <<Msg(roomState.appSocketId, "cursor_move",
                          [deltaX |-> data.deltaX * roomState.sensitivity,
                           deltaY |-> data.deltaY * roomState.sensitivity])>>
    /\ lastEvent' = Event("cursor_move", sid, roomId)
    /\ UNCHANGED <<roomStates, socketStatus, currentRoomCode, joined, assignedRoomCode>>
    /\ controllerView' = Received(controllerView, emitted', socketStatus', 1)
    /\ UNCHANGED <<recognizerVars, pageVars, canvasVars>>

\* socket.on('tap')
Tap(sid, roomId, source) ==
    /\ socketStatus[sid] = "connected"
    /\ events < MaxEvents
    /\ events' = events + 1
    /\ \E roomState \in {GetRoom(roomStates, toUpperCase(roomId))} :
           emitted' =
               IF roomId = "" THEN <<>>
               ELSE IF ~IsRoomController(roomState, sid) THEN <<>>
               ELSE IF ~SocketFound(socketStatus, roomState.appSocketId) THEN <<>>
               ELSE <<Msg(roomState.appSocketId, "tap", [source |-> source])>>
    /\ lastEvent' = Event("tap", sid, roomId)
    /\ UNCHANGED <<roomStates, socketStatus, currentRoomCode, joined, assignedRoomCode>>
    /\ controllerView' = Received(controllerView, emitted', socketStatus', 1)
    /\ UNCHANGED <<recognizerVars, pageVars, canvasVars>>

\* KeyStep with a mode change that leaves isShiftActive as it is.
KeyStepKeepShift(controllerState, key, targetMode) ==
    IF key = "ToggleMode"
    THEN [controllerState |->
              IF targetMode \in allowedModes
                 /\ controllerState.keyboardMode # targetMode
              THEN [controllerState EXCEPT !.keyboardMode = targetMode]
              ELSE controllerState,
          keyToBroadcast |-> ""]
    ELSE IF key = "ToggleShift"
    THEN [controllerState |->
              IF controllerState.keyboardMode = "letters"
              THEN [controllerState EXCEPT !.isShiftActive = ~@]
              ELSE controllerState,
          keyToBroadcast |-> ""]
    ELSE IF /\ controllerState.keyboardMode = "letters"
            /\ controllerState.isShiftActive
            /\ key \in LowerCaseLetters
    THEN [controllerState |-> [controllerState EXCEPT !.isShiftActive = FALSE],
          keyToBroadcast |-> toUpperCase(key)]
    ELSE [controllerState |-> controllerState, keyToBroadcast |-> key]

\* What key_input does in a room whose controller sent key: the
\* controllerState it leaves and the key it forwards ("" for none).
KeyStep(controllerState, key, targetMode) ==
    IF key = "ToggleMode"
    THEN [controllerState |->
              IF targetMode \in allowedModes
                 /\ controllerState.keyboardMode # targetMode
              THEN [keyboardMode |-> targetMode, isShiftActive |-> FALSE]
              ELSE controllerState,
          keyToBroadcast |-> ""]
    ELSE IF key = "ToggleShift"
    THEN [controllerState |->
              IF controllerState.keyboardMode = "letters"
              THEN [controllerState EXCEPT !.isShiftActive = ~@]
              ELSE controllerState,
          keyToBroadcast |-> ""]
    ELSE IF /\ controllerState.keyboardMode = "letters"
            /\ controllerState.isShiftActive
            /\ key \in LowerCaseLetters
    THEN [controllerState |-> [controllerState EXCEPT !.isShiftActive = FALSE],
          keyToBroadcast |-> toUpperCase(key)]
    ELSE [controllerState |-> controllerState, keyToBroadcast |-> key]

\* socket.on('key_input')
KeyInput(sid, roomId, key, targetMode) ==
    /\ socketStatus[sid] = "connected"
    /\ events < MaxEvents
    /\ events' = events + 1
    /\ \E roomState \in {GetRoom(roomStates, toUpperCase(roomId))} :
           IF roomId = "" \/ ~IsRoomController(roomState, sid)
           THEN /\ emitted' = <<>>
                /\ UNCHANGED roomStates
           ELSE \E step \in {KeyStep(roomState.controllerState, key, targetMode)} :
                \E after \in {[roomState EXCEPT
                                  !.controllerState = step.controllerState]} :
                    /\ roomStates' =
                           [roomStates EXCEPT ![toUpperCase(roomId)] = after]
                    /\ emitted' =
                           (IF step.controllerState # roomState.controllerState
                            THEN broadcastControllerStateToRoom(after)
                            ELSE <<>>)
                           \o (IF step.keyToBroadcast # ""
                                  /\ SocketFound(socketStatus, after.appSocketId)
                               THEN <<Msg(after.appSocketId, "key_input",
                                          [key |-> step.keyToBroadcast])>>
                               ELSE <<>>)
    /\ lastEvent' = KeyEvent(sid, roomId, key, targetMode)
    /\ UNCHANGED <<socketStatus, currentRoomCode, joined, assignedRoomCode>>
    /\ controllerView' = Received(controllerView, emitted', socketStatus', 1)
    /\ UNCHANGED <<recognizerVars, pageVars, canvasVars>>

\* The events a server receives.
NextRelay ==
    \/ \E sid \in Sockets : Connection(sid)
    \/ \E sid \in Sockets : Disconnect(sid)
    \/ \E sid \in Sockets, draws \in Draws : RegisterAppRoom(sid, draws)
    \/ \E sid \in Sockets, roomCode \in RoomIds : RejoinAppRoom(sid, roomCode)
    \/ \E sid \in Sockets, roomCode \in RoomIds : RegisterControllerRoom(sid, roomCode)
    \/ \E sid \in Sockets, roomId \in RoomIds, pos \in Positions :
           ReportCursorPosition(sid, roomId, pos)
    \/ \E sid \in Sockets, roomId \in RoomIds, focusInfo \in FocusInfos :
           ReportFocusChange(sid, roomId, focusInfo)
    \/ \E sid \in Sockets, roomId \in RoomIds, data \in Deltas :
           CursorMove(sid, roomId, data)
    \/ \E sid \in Sockets, roomId \in RoomIds : Tap(sid, roomId, "touch")
    \/ \E sid \in Sockets, roomId \in RoomIds, key \in Keys, targetMode \in TargetModes :
           KeyInput(sid, roomId, key, targetMode)

SpecRelay == Init /\ [][NextRelay]_vars

\* The events a controller sends for the server to forward to the app.
RelayEvents == {"cursor_move", "tap", "key_input"}

\* C20: a cursor_move, tap or key_input event of socket s naming room r
\* is forwarded only when r exists and s is one of its controllers, and then
\* only to the appSocketId of r; an event naming a room that does not exist
\* or that s has not joined emits nothing and leaves roomStates as it was.
C20_RelayIsolation ==
    [][lastEvent'.event \in RelayEvents
        => LET r == toUpperCase(lastEvent'.roomId)
               Member ==
                   /\ HasRoom(roomStates, r)
                   /\ SetHas(roomStates[r].controllerSocketIds, lastEvent'.socket)
           IN  /\ \A i \in 1..Len(emitted') :
                      emitted'[i].event \in RelayEvents
                          => /\ Member
                             /\ HasRoom(roomStates', r)
                             /\ emitted'[i].to = roomStates'[r].appSocketId
               /\ ~Member => (Len(emitted') = 0 /\ roomStates' = roomStates)]_vars

\* C20: a connected socket that is no controller of an existing room, whose
\* app is connected and which has a controller, has sent a relay event
\* naming that room, and nothing was emitted.
C20_Witness ==
    /\ lastEvent.event \in RelayEvents
    /\ HasRoom(roomStates, toUpperCase(lastEvent.roomId))
    /\ LET roomState == roomStates[toUpperCase(lastEvent.roomId)]
       IN  /\ ~SetHas(roomState.controllerSocketIds, lastEvent.socket)
           /\ Len(roomState.controllerSocketIds) > 0
           /\ SocketFound(socketStatus, roomState.appSocketId)
    /\ Len(emitted) = 0

\* The handler has emitted the event to the socket to.
Sent(msgs, to, event) ==
    \E i \in 1..Len(msgs) : msgs[i].to = to /\ msgs[i].event = event

\* An app client other than that of socket sid holds the room code.
AssignedToOther(sid, code) ==
    code # "" /\ \E o \in Sockets \ {sid} : assignedRoomCode[o] = code

\* The rejoin of socket sid to the room state roomState of code has sent
\* what restores the app: the code, the state last reported, and
\* app_reconnected to the connected controllers.
Restored(msgs, sid, code, roomState) ==
    /\ \E i \in 1..Len(msgs) :
           /\ msgs[i].to = sid
           /\ msgs[i].event = "your_room_id"
           /\ msgs[i].payload = code
    /\ \E i \in 1..Len(msgs) :
           /\ msgs[i].to = sid
           /\ msgs[i].event = "initial_state"
           /\ msgs[i].payload.cursor.x = roomState.lastKnownCursor.x
           /\ msgs[i].payload.cursor.y = roomState.lastKnownCursor.y
           /\ msgs[i].payload.focusedElementSelector = roomState.lastKnownFocusSelector
           /\ msgs[i].payload.focusedElementValue = roomState.lastKnownFocusValue
    /\ \A k \in Sockets :
           (SetHas(roomState.controllerSocketIds, k) /\ SocketFound(socketStatus, k))
               => Sent(msgs, k, "app_reconnected")

\* C21: when a socket sends rejoin_app_room with the code an app was
\* assigned on another socket, whether or not the disconnect of that socket
\* has been handled, the handler sends it your_room_id with the code and
\* initial_state with the cursor and focus last reported for the room, and
\* sends app_reconnected to the room's controllers.
C21_RejoinRestoresContext ==
    [][(/\ lastEvent'.event = "rejoin_app_room"
        /\ AssignedToOther(lastEvent'.socket, toUpperCase(lastEvent'.roomId)))
         => /\ HasRoom(roomStates, toUpperCase(lastEvent'.roomId))
            /\ Restored(emitted', lastEvent'.socket, toUpperCase(lastEvent'.roomId),
                        roomStates[toUpperCase(lastEvent'.roomId)])]_vars

\* C22: the disconnect of the socket that is a room's appSocketId deletes
\* the room and sends app_disconnected to each of its controllers that is
\* still connected; and a cursor_move, tap or key_input is forwarded only
\* for a code that names a room of roomStates.
C22_AppDisconnectClosesRoom ==
    [][/\ lastEvent'.event = "disconnect"
          => \A code \in RoomCodes :
                 roomStates[code].appSocketId = lastEvent'.socket
                     => /\ ~HasRoom(roomStates', code)
                        /\ \A k \in Sockets :
                               (/\ SetHas(roomStates[code].controllerSocketIds, k)
                                /\ SocketFound(socketStatus', k))
                                   => Sent(emitted', k, "app_disconnected")
       /\ lastEvent'.event \in RelayEvents
          => \A i \in 1..Len(emitted') :
                 emitted'[i].event \in RelayEvents
                     => HasRoom(roomStates, toUpperCase(lastEvent'.roomId))]_vars

\* The handler has sent update_controller_state with the state to the
\* socket to.
SentState(msgs, to, state) ==
    \E i \in 1..Len(msgs) :
        /\ msgs[i].to = to
        /\ msgs[i].event = "update_controller_state"
        /\ msgs[i].payload.controllerState = state

\* Every connected controller of every room shows the controllerState of
\* the room.
InSync(rooms, status, view) ==
    \A code \in RoomCodes, k \in Sockets :
        (/\ HasRoom(rooms, code)
         /\ SetHas(rooms[code].controllerSocketIds, k)
         /\ SocketFound(status, k))
            => view[k] = rooms[code].controllerState

\* C23: a controller that joins a room is sent the room's controllerState;
\* a key_input that changes the controllerState of a room sends the new
\* state to every controller of the room; and, the messages delivered in
\* order, every connected controller of a room shows the room's
\* controllerState.
C23_ControllersInSync ==
    [][LET code == toUpperCase(lastEvent'.roomId)
       IN  /\ (lastEvent'.event = "register_controller_room" /\ HasRoom(roomStates, code))
                  => SentState(emitted', lastEvent'.socket,
                               roomStates'[code].controllerState)
           /\ (/\ lastEvent'.event = "key_input"
               /\ HasRoom(roomStates, code)
               /\ roomStates'[code].controllerState # roomStates[code].controllerState)
                  => \A i \in 1..Len(roomStates'[code].controllerSocketIds) :
                         SentState(emitted', roomStates'[code].controllerSocketIds[i],
                                   roomStates'[code].controllerState)
           /\ InSync(roomStates', socketStatus', controllerView')]_vars

\* C24: register_app_room assigns a code of codeLength letters of the
\* alphabet that roomStates does not hold at that moment, and stores the new
\* room under it: the state of every other code is left as it was.
C24_FreshRoomCode ==
    [][lastEvent'.event = "register_app_room"
        => \E i \in 1..Len(emitted') :
               /\ emitted'[i].event = "your_room_id"
               /\ emitted'[i].to = lastEvent'.socket
               /\ Len(emitted'[i].payload) = codeLength
               /\ emitted'[i].payload \in RoomCodes
               /\ ~HasRoom(roomStates, emitted'[i].payload)
               /\ roomStates'[emitted'[i].payload] =
                      createInitialRoomState(lastEvent'.socket)
               /\ \A code \in RoomCodes \ {emitted'[i].payload} :
                      roomStates'[code] = roomStates[code]]_vars

\* C24: a registration has drawn a code roomStates already held, drawn
\* again, and stored the new room under the second code; the room of the
\* first code is still there.
C24_Witness ==
    /\ lastEvent.event = "register_app_room"
    /\ \A code \in RoomCodes : HasRoom(roomStates, code)
    /\ \E code \in RoomCodes : roomStates[code].appSocketId # lastEvent.socket
    /\ \E code \in RoomCodes :
           /\ roomStates[code] = createInitialRoomState(lastEvent.socket)
           /\ Sent(emitted, lastEvent.socket, "your_room_id")

\* C25: register_controller_room with a code that names no room sends
\* invalid_room to the sender and disconnects it; the sender is added to
\* the controllerSocketIds of no room, no room's controllerState changes,
\* and the cursor visibility changes in no room but one the sender leaves
\* by that disconnect.
C25_FailedJoinRejected ==
    [][(/\ lastEvent'.event = "register_controller_room"
        /\ GetRoom(roomStates, toUpperCase(lastEvent'.roomId)) = NoRoom)
         => /\ Len(emitted') >= 1
            /\ emitted'[1].event = "invalid_room"
            /\ emitted'[1].to = lastEvent'.socket
            /\ emitted'[1].payload = toUpperCase(lastEvent'.roomId)
            /\ socketStatus'[lastEvent'.socket] = "closed"
            /\ \A code \in RoomCodes :
                   /\ SetHas(roomStates'[code].controllerSocketIds, lastEvent'.socket)
                          => SetHas(roomStates[code].controllerSocketIds,
                                    lastEvent'.socket)
                   /\ roomStates'[code] # NoRoom
                          => /\ roomStates'[code].controllerState =
                                    roomStates[code].controllerState
                             /\ \/ roomStates'[code].lastKnownCursor.isVisible =
                                       roomStates[code].lastKnownCursor.isVisible
                                \/ /\ code = currentRoomCode[lastEvent'.socket]
                                   /\ SetHas(roomStates[code].controllerSocketIds,
                                             lastEvent'.socket)
                                   /\ ~SetHas(roomStates'[code].controllerSocketIds,
                                              lastEvent'.socket)]_vars

\* C25: a socket has been refused a room that does not exist and is
\* closed, while a room with a controller and a visible cursor is there.
C25_Witness ==
    /\ lastEvent.event = "register_controller_room"
    /\ Sent(emitted, lastEvent.socket, "invalid_room")
    /\ socketStatus[lastEvent.socket] = "closed"
    /\ \E code \in RoomCodes :
           /\ HasRoom(roomStates, code)
           /\ Len(roomStates[code].controllerSocketIds) > 0
           /\ roomStates[code].lastKnownCursor.isVisible

\* ------------------------------------------------ the angle search alone
\* a < x1 < x2 < b
Ordered(a, x1, x2, b) == Lt(a, x1) /\ Lt(x1, x2) /\ Lt(x2, b)

\* The while loop of _distanceAtBestAngle with a record of its run: whether
\* it has exited (done), the value returned, the bracket, the number of
\* iterations, the objective values in the order they were evaluated, and
\* whether every loop test found a < x1 < x2 < b inside [low, high]. The
\* loop is deterministic in a, b, x1, f1, x2, f2: a run that comes back to
\* values it has been at (visited) never exits, and is recorded as not done.
RECURSIVE One_searchRun(_, _, _, _, _, _, _, _, _, _, _)
One_searchRun(points, T, a, b, x1, f1, x2, f2, threshold, bounds, run) ==
    LET here == <<a, b, x1, f1, x2, f2>>
        within == Ge(a, bounds[1]) /\ Ge(bounds[2], b)
        seen == [run EXCEPT !.a = a, !.b = b,
                            !.ordered = @ /\ Ordered(a, x1, x2, b),
                            !.inside = @ /\ within,
                            !.visited = @ \cup {here}]
    IN  IF ~Lt(threshold, MathAbs(Minus(b, a)))
        THEN [run EXCEPT !.done = TRUE, !.value = MathMin(f1, f2),
                         !.a = a, !.b = b, !.inside = @ /\ within]
        ELSE IF here \in run.visited
        THEN seen
        ELSE IF Lt(f1, f2)
        THEN LET Lower(nx1, nf1) ==
                     One_searchRun(points, T, a, x2, nx1, nf1, x1, f1, threshold,
                                   bounds,
                                   [seen EXCEPT !.iterations = @ + 1,
                                                !.evaluated = Append(@, nf1)])
                 At(nx1) == Lower(nx1, One_distanceAtAngle(points, T, nx1))
             IN  At(Plus(Times(Phi, a), Times(Minus(Num(1), Phi), x2)))
        ELSE LET Upper(nx2, nf2) ==
                     One_searchRun(points, T, x1, b, x2, f2, nx2, nf2, threshold,
                                   bounds,
                                   [seen EXCEPT !.iterations = @ + 1,
                                                !.evaluated = Append(@, nf2)])
                 At(nx2) == Upper(nx2, One_distanceAtAngle(points, T, nx2))
             IN  At(Plus(Times(Minus(Num(1), Phi), x1), Times(Phi, b)))

\* _distanceAtBestAngle with the record of its run.
One_distanceAtBestAngleRun(points, T, a, b, threshold) ==
    LET Started(evaluated) ==
            [done |-> FALSE, value |-> Zero, a |-> a, b |-> b, iterations |-> 0,
             evaluated |-> evaluated, ordered |-> TRUE, inside |-> TRUE,
             visited |-> {}]
        Search(x1, f1, x2, f2) ==
            One_searchRun(points, T, a, b, x1, f1, x2, f2, threshold, <<a, b>>,
                          Started(<<f1, f2>>))
        At(x1, x2) ==
            Search(x1, One_distanceAtAngle(points, T, x1),
                   x2, One_distanceAtAngle(points, T, x2))
    IN  IF Len(T.Points) < Len(points)
        THEN [Started(<<>>) EXCEPT !.done = TRUE, !.value = Threw]
        ELSE At(Plus(Times(Phi, a), Times(Minus(Num(1), Phi), b)),
                Plus(Times(Minus(Num(1), Phi), a), Times(Phi, b)))

\* The candidate paths the search is given: normalized strokes of the grid.
SearchPoints ==
    {One_normalize(One_resample(One_convertPoints(AsPairs(s)), NumPoints).newPoints) :
        s \in {t \in GridStrokes : ValidStroke(t)}}

\* The brackets [angleLow, angleHigh] the search is given: the degree values
\* check passes and the same in radians,
WideBrackets == {<<Num(-AngleRange), Num(AngleRange)>>, <<Deg2Rad(-45), Deg2Rad(45)>>}
\* and brackets one unit and a few steps wide.
NarrowBrackets == {<<Zero, Num(1)>>, <<Fin(-56), Fin(-54)>>, <<Fin(40), Fin(43)>>}

\* The precisions the search is given: the value check passes and 2 degrees
\* in radians, and for the narrow brackets also the least positive number.
Thresholds == {Num(AnglePrecision), Deg2Rad(2)}
Searches ==
    {<<ab[1], ab[2], th>> : ab \in WideBrackets \cup NarrowBrackets, th \in Thresholds}
        \cup {<<ab[1], ab[2], Fin(1)>> : ab \in NarrowBrackets}

\* _distanceAtBestAngle is about to be called.
InitSearch ==
    /\ recognizer = "OneDollar"
    /\ Templates = One_constructor(Len(DefaultStrokes))
    /\ lastCall = NoCall
    /\ lastResult = [kind |-> "none", name |-> "", score |-> Zero]
    /\ argument = <<>>
    /\ calls = 0
    /\ input \in {[method |-> "_distanceAtBestAngle", points |-> p, T |-> i,
                   a |-> abt[1], b |-> abt[2], threshold |-> abt[3]] :
                     p \in SearchPoints, i \in 1..Len(DefaultStrokes),
                     abt \in Searches}
    /\ output = NoOutput
    /\ RelayInit
    /\ PageInit
    /\ CanvasInit

\* OneDollar._distanceAtBestAngle(points, T, a, b, threshold)
OneDistanceAtBestAngle ==
    /\ input.method = "_distanceAtBestAngle"
    /\ output = NoOutput
    /\ output' = [method |-> "_distanceAtBestAngle",
                  run |-> One_distanceAtBestAngleRun(input.points, Templates[input.T],
                                                     input.a, input.b, input.threshold)]
    /\ UNCHANGED <<recognizer, Templates, lastCall, lastResult, argument, calls, input>>
    /\ UNCHANGED <<relayVars, pageVars, canvasVars>>

NextSearch == OneDistanceAtBestAngle

SpecSearch == InitSearch /\ [][NextSearch]_vars

\* The least of the two objective values evaluated last.
MinOfLastTwo(evaluated) ==
    MathMin(evaluated[Len(evaluated) - 1], evaluated[Len(evaluated)])

\* C26: for angleLow < angleHigh and precision > 0, _distanceAtBestAngle
\* terminates; on exit the bracket is no wider than the precision, it has
\* stayed inside [angleLow, angleHigh] with a < x1 < x2 < b at every
\* iteration, the objective was evaluated twice before the loop and once
\* per iteration, and the value returned is the least of the two objective
\* values evaluated last.
C26_GoldenSectionContract ==
    (output.method = "_distanceAtBestAngle" /\ Lt(input.a, input.b)
        /\ Lt(Zero, input.threshold))
        => /\ output.run.done
           /\ Ge(input.threshold, MathAbs(Minus(output.run.b, output.run.a)))
           /\ output.run.inside
           /\ output.run.ordered
           /\ Len(output.run.evaluated) = 2 + output.run.iterations
           /\ output.run.value = MinOfLastTwo(output.run.evaluated)

\* ---------------------------------------------- the cloud distance alone
\* Q_cloudRun with the early exit returning the sum as it was before the
\* candidate point at hand.
RECURSIVE Q_cloudRunStale(_, _, _, _, _, _, _)
Q_cloudRunStale(pts1, pts2, i, matched, sum, minSoFar, run) ==
    IF i > Len(pts1) THEN [run EXCEPT !.value = sum]
    ELSE LET Prune(index, nmatched, nsum) ==
                 LET processed ==
                         [run EXCEPT !.pairs = Append(@, index),
                                     !.sizes = Append(@, Cardinality(nmatched))]
                 IN  IF Ge(nsum, minSoFar)
                     THEN [processed EXCEPT !.early = TRUE, !.value = sum]
                     ELSE Q_cloudRunStale(pts1, pts2, i + 1, nmatched, nsum, minSoFar,
                                          processed)
             Match(r) ==
                 IF r.index # 0
                 THEN Prune(r.index, matched \cup {r.index},
                            Plus(sum, SqrtOfSquare(r.min)))
                 ELSE Prune(0, matched, sum)
         IN  Match(Q_nearest(pts1[i], pts2, matched, 1, Len(pts1), PosInf, 0))

\* The outer loop of _cloudDistance from candidate point i on, with a
\* record of its run: the template index each processed candidate point
\* was paired with (0 when index stayed -1), the number of indices marked
\* matched after each candidate point, whether the early exit was taken,
\* and the value returned.
RECURSIVE Q_cloudRun(_, _, _, _, _, _, _)
Q_cloudRun(pts1, pts2, i, matched, sum, minSoFar, run) ==
    IF i > Len(pts1) THEN [run EXCEPT !.value = sum]
    ELSE LET Prune(index, nmatched, nsum) ==
                 LET processed ==
                         [run EXCEPT !.pairs = Append(@, index),
                                     !.sizes = Append(@, Cardinality(nmatched))]
                 IN  IF Ge(nsum, minSoFar)
                     THEN [processed EXCEPT !.early = TRUE, !.value = nsum]
                     ELSE Q_cloudRun(pts1, pts2, i + 1, nmatched, nsum, minSoFar,
                                     processed)
             Match(r) ==
                 IF r.index # 0
                 THEN Prune(r.index, matched \cup {r.index},
                            Plus(sum, SqrtOfSquare(r.min)))
                 ELSE Prune(0, matched, sum)
         IN  Match(Q_nearest(pts1[i], pts2, matched, 1, Len(pts1), PosInf, 0))

\* _cloudDistance with the record of its run.
Q_cloudDistanceRun(pts1, pts2, minSoFar) ==
    LET Started == [pairs |-> <<>>, sizes |-> <<>>, early |-> FALSE, value |-> Zero]
    IN  IF Len(pts2) < Len(pts1) THEN [Started EXCEPT !.value = Threw]
        ELSE Q_cloudRun(pts1, pts2, 1, {}, Zero, minSoFar, Started)

\* The paths _cloudDistance is given: check's candidate and the Points of a
\* stored template, each the processed points of an array a caller passed.
CloudPaths ==
    {Q_normalize(Q_resample(Q_convertPoints(s), NumPoints).newPoints) :
        s \in {t \in RawStrokes \cup LooseStrokes : Len(t) > 0}}

\* The best distances so far _cloudDistance is given: check's first
\* (+Infinity) and three distances of earlier templates.
MinSoFars == {PosInf, Zero, Half, Num(1)}

\* _cloudDistance is about to be called.
InitCloud ==
    /\ recognizer = "QDollar"
    /\ Templates = Q_constructor(Len(DefaultStrokes))
    /\ lastCall = NoCall
    /\ lastResult = [kind |-> "none", name |-> "", score |-> Zero]
    /\ argument = <<>>
    /\ calls = 0
    /\ input \in {[method |-> "_cloudDistance", pts1 |-> p1, pts2 |-> p2,
                   minSoFar |-> m] :
                     p1 \in CloudPaths, p2 \in CloudPaths, m \in MinSoFars}
    /\ output = NoOutput
    /\ RelayInit
    /\ PageInit
    /\ CanvasInit

\* QDollar._cloudDistance(pts1, pts2, start, minSoFar), next to the run of
\* the same call that no sum cuts short (sum >= NaN is false).
QCloudDistance ==
    /\ input.method = "_cloudDistance"
    /\ output = NoOutput
    /\ output' = [method |-> "_cloudDistance",
                  run |-> Q_cloudDistanceRun(input.pts1, input.pts2, input.minSoFar),
                  full |-> Q_cloudDistanceRun(input.pts1, input.pts2, NaN)]
    /\ UNCHANGED <<recognizer, Templates, lastCall, lastResult, argument, calls, input>>
    /\ UNCHANGED <<relayVars, pageVars, canvasVars>>

NextCloud == QCloudDistance

SpecCloud == InitCloud /\ [][NextCloud]_vars

\* Template point j is the nearest to p of those not in matched, the one
\* of lowest index among equally near ones.
NearestUnmatched(p, pts2, n, matched, j) ==
    /\ j \in (1..n) \ matched
    /\ \A h \in (1..n) \ matched :
           \/ Lt(Q_sqrEuclideanDistance(p, pts2[j]), Q_sqrEuclideanDistance(p, pts2[h]))
           \/ /\ StrictEq(Q_sqrEuclideanDistance(p, pts2[j]),
                          Q_sqrEuclideanDistance(p, pts2[h]))
              /\ j <= h

\* The template indices paired with the first k candidate points.
PairedBefore(pairs, k) == {pairs[h] : h \in 1..(k - 1)} \ {0}

\* C27: in _cloudDistance, after each candidate point the matched template
\* indices are as many as the candidate points processed, each candidate
\* point is paired with the nearest template point not yet matched (the
\* lowest index among equally near ones), and a run over two paths of
\* equal length that is not cut short pairs them one-to-one.
C27_GreedyOneToOne ==
    (output.method = "_cloudDistance" /\ output.run.value # Threw)
        => LET pairs == output.run.pairs
               n == Len(input.pts1)
           IN  /\ \A k \in 1..Len(pairs) :
                      /\ output.run.sizes[k] = k
                      /\ NearestUnmatched(input.pts1[k], input.pts2, n,
                                          PairedBefore(pairs, k), pairs[k])
               /\ (Len(pairs) = n /\ Len(input.pts2) = n)
                      => {pairs[k] : k \in 1..n} = 1..n

\* C28: the value _cloudDistance returns for a candidate, a template and
\* minSoFar is at most the value of the greedy match run to the end on the
\* same paths; it is at least minSoFar when the exit was early; and the two
\* values are equal when the value of the full match is below minSoFar.
C28_PrunedIsLowerBound ==
    (output.method = "_cloudDistance" /\ output.run.value # Threw)
        => /\ Ge(output.full.value, output.run.value)
           /\ output.run.early => Ge(output.run.value, input.minSoFar)
           /\ Lt(output.full.value, input.minSoFar)
                  => StrictEq(output.run.value, output.full.value)

\* C28 witness: _cloudDistance has exited early, before the last candidate
\* point, with a value of at least minSoFar and below that of the full
\* match.
C28_Witness ==
    /\ output.method = "_cloudDistance"
    /\ output.run.early
    /\ Len(output.run.pairs) < Len(input.pts1)
    /\ Ge(output.run.value, input.minSoFar)
    /\ Lt(output.run.value, output.full.value)

\* The handler has emitted set_cursor_visibility(visible) to the socket to.
SentVisibility(msgs, to, visible) ==
    \E i \in 1..Len(msgs) :
        /\ msgs[i].to = to
        /\ msgs[i].event = "set_cursor_visibility"
        /\ msgs[i].payload = visible

\* The room of the code has controllers.
HasControllers(rooms, code) == Len(rooms[code].controllerSocketIds) > 0

\* C29: after every step of the server and for every room,
\* lastKnownCursor.isVisible is true exactly when controllerSocketIds is
\* not empty; the join of a room's first controller makes the cursor
\* visible and sends the app set_cursor_visibility(true); the disconnect of
\* a room's last controller hides it and sends the app
\* set_cursor_visibility(false).
C29_CursorVisibleWithControllers ==
    [][\A code \in RoomCodes :
          /\ HasRoom(roomStates', code)
                 => (roomStates'[code].lastKnownCursor.isVisible
                         <=> HasControllers(roomStates', code))
          /\ (/\ lastEvent'.event = "register_controller_room"
              /\ toUpperCase(lastEvent'.roomId) = code
              /\ HasRoom(roomStates, code)
              /\ ~HasControllers(roomStates, code))
                 => /\ roomStates'[code].lastKnownCursor.isVisible
                    /\ SentVisibility(emitted', roomStates[code].appSocketId, TRUE)
          /\ \A sid \in Sockets :
                 (/\ socketStatus[sid] = "connected"
                  /\ socketStatus'[sid] = "closed"
                  /\ HasRoom(roomStates, code)
                  /\ roomStates[code].controllerSocketIds = <<sid>>
                  /\ roomStates[code].appSocketId # sid)
                     => /\ HasRoom(roomStates', code)
                        /\ ~roomStates'[code].lastKnownCursor.isVisible
                        /\ SentVisibility(emitted', roomStates[code].appSocketId,
                                          FALSE)]_vars

\* C30: after every step of the server every room's controllerState has
\* a keyboardMode among letters, numbers and symbols2, and isShiftActive
\* only in letters mode; a step that changes the mode leaves shift clear; a
\* ToggleShift outside letters mode and a ToggleMode with a missing or
\* unknown targetMode leave the controllerState as it was.
C30_ControllerStateWellFormed ==
    [][\A code \in RoomCodes :
          /\ HasRoom(roomStates', code)
                 => /\ roomStates'[code].controllerState.keyboardMode \in allowedModes
                    /\ roomStates'[code].controllerState.isShiftActive
                           => roomStates'[code].controllerState.keyboardMode = "letters"
          /\ (HasRoom(roomStates, code) /\ HasRoom(roomStates', code))
                 => /\ roomStates'[code].controllerState.keyboardMode
                           # roomStates[code].controllerState.keyboardMode
                           => ~roomStates'[code].controllerState.isShiftActive
                    /\ (/\ lastEvent'.event = "key_input"
                        /\ \/ /\ lastEvent'.key = "ToggleShift"
                              /\ roomStates[code].controllerState.keyboardMode
                                     # "letters"
                           \/ /\ lastEvent'.key = "ToggleMode"
                              /\ lastEvent'.targetMode \notin allowedModes)
                           => roomStates'[code].controllerState
                                  = roomStates[code].controllerState]_vars

\* C30 witness: a controller of a room in numbers mode has sent
\* ToggleShift, and the room is in numbers mode with shift clear.
C30_Witness ==
    /\ lastEvent.event = "key_input"
    /\ lastEvent.key = "ToggleShift"
    /\ HasRoom(roomStates, toUpperCase(lastEvent.roomId))
    /\ LET roomState == roomStates[toUpperCase(lastEvent.roomId)]
       IN  /\ SetHas(roomState.controllerSocketIds, lastEvent.socket)
           /\ roomState.controllerState.keyboardMode = "numbers"
           /\ ~roomState.controllerState.isShiftActive

\* ------------------------------------------------------ the keys alone
\* The keys and target modes a controller sends, beyond those of NextRelay:
\* an upper-case letter, a digit and a named key.
TypedKeys == {"ToggleMode", "ToggleShift", "a", "A", "1", "Enter"}
TypedModes == {"numbers", "letters"}

\* The events of a server whose clients register, join, type and leave.
NextKeys ==
    \/ \E sid \in Sockets : Connection(sid)
    \/ \E sid \in Sockets : Disconnect(sid)
    \/ \E sid \in Sockets, draws \in Draws : RegisterAppRoom(sid, draws)
    \/ \E sid \in Sockets, roomCode \in RoomIds : RegisterControllerRoom(sid, roomCode)
    \/ \E sid \in Sockets, roomId \in RoomIds, key \in TypedKeys,
          targetMode \in TypedModes :
           KeyInput(sid, roomId, key, targetMode)

SpecKeys == Init /\ [][NextKeys]_vars

\* The key_input messages the handler has emitted are one message, to the
\* socket to, with the key.
SentKey(msgs, to, key) ==
    /\ \E i \in 1..Len(msgs) :
           /\ msgs[i].event = "key_input"
           /\ msgs[i].to = to
           /\ msgs[i].payload.key = key
    /\ \A i, j \in 1..Len(msgs) :
           (msgs[i].event = "key_input" /\ msgs[j].event = "key_input") => i = j

\* C31: a key_input from a controller of a room: a lower-case letter
\* received in letters mode with shift active is sent to the app in upper
\* case and isShiftActive becomes false; every other regular key is sent
\* to the app as it is and the controllerState stays; ToggleMode and
\* ToggleShift are never sent to the app as key_input.
C31_ShiftIsOneShot ==
    [][(/\ lastEvent'.event = "key_input"
        /\ IsRoomController(GetRoom(roomStates, toUpperCase(lastEvent'.roomId)),
                            lastEvent'.socket))
        => LET code == toUpperCase(lastEvent'.roomId)
               key == lastEvent'.key
               Shifted ==
                   /\ roomStates[code].controllerState.keyboardMode = "letters"
                   /\ roomStates[code].controllerState.isShiftActive
                   /\ key \in LowerCaseLetters
           IN  IF key \in {"ToggleMode", "ToggleShift"}
               THEN \A i \in 1..Len(emitted') : emitted'[i].event # "key_input"
               ELSE IF Shifted
               THEN /\ SentKey(emitted', roomStates[code].appSocketId,
                               toUpperCase(key))
                    /\ ~roomStates'[code].controllerState.isShiftActive
               ELSE /\ SentKey(emitted', roomStates[code].appSocketId, key)
                    /\ roomStates'[code].controllerState
                           = roomStates[code].controllerState]_vars

\* The socket is the app or a controller of the room.
InRoom(roomState, sid) ==
    roomState # NoRoom
        /\ (roomState.appSocketId = sid \/ SetHas(roomState.controllerSocketIds, sid))

\* C32: a socket whose disconnect has been handled is the appSocketId of
\* no room and is in no room's controllerSocketIds, whatever rooms it
\* registered, rejoined or joined before.
C32_DisconnectCleansUp ==
    \A sid \in Sockets :
        socketStatus[sid] = "closed"
            => \A code \in RoomCodes : ~InRoom(roomStates[code], sid)

\* --------------------------------------------------- the reports alone
\* The data of the reports an app, or any other client, sends: a position
\* or none, a focused element, a blur (no selector, no value) or none.
ReportedPositions == Positions \cup {[x |-> 7, y |-> 9], Missing}
ReportedFocusInfos == FocusInfos \cup {[selector |-> "", value |-> ""], Missing}

\* The events of a server whose clients register, rejoin, join, report and
\* leave.
NextReports ==
    \/ \E sid \in Sockets : Connection(sid)
    \/ \E sid \in Sockets : Disconnect(sid)
    \/ \E sid \in Sockets, draws \in Draws : RegisterAppRoom(sid, draws)
    \/ \E sid \in Sockets, roomCode \in RoomIds : RejoinAppRoom(sid, roomCode)
    \/ \E sid \in Sockets, roomCode \in RoomIds : RegisterControllerRoom(sid, roomCode)
    \/ \E sid \in Sockets, roomId \in RoomIds, pos \in ReportedPositions :
           ReportCursorPosition(sid, roomId, pos)
    \/ \E sid \in Sockets, roomId \in RoomIds, focusInfo \in ReportedFocusInfos :
           ReportFocusChange(sid, roomId, focusInfo)

SpecReports == Init /\ [][NextReports]_vars

\* The room state with the remembered position, or the remembered focus,
\* taken out.
WithoutPosition(roomState) ==
    [roomState EXCEPT !.lastKnownCursor.x = 0, !.lastKnownCursor.y = 0]
WithoutFocus(roomState) ==
    [roomState EXCEPT !.lastKnownFocusSelector = Null, !.lastKnownFocusValue = ""]

\* C33: a report_cursor_position or report_focus_change changes the state
\* of a room only when the room is the one it names, its sender is the
\* room's appSocketId and its fields are there; it then changes nothing
\* but x and y of lastKnownCursor, or the focus selector and value; it
\* never changes isVisible or controllerState, and creates or deletes no
\* room.
C33_OnlyAppReports ==
    [][lastEvent'.event \in {"report_cursor_position", "report_focus_change"}
        => \A code \in RoomCodes :
               /\ HasRoom(roomStates', code) <=> HasRoom(roomStates, code)
               /\ roomStates'[code] # roomStates[code]
                      => /\ toUpperCase(lastEvent'.roomId) = code
                         /\ lastEvent'.socket = roomStates[code].appSocketId
                         /\ lastEvent'.data # Missing
                         /\ IF lastEvent'.event = "report_cursor_position"
                            THEN WithoutPosition(roomStates'[code])
                                     = WithoutPosition(roomStates[code])
                            ELSE WithoutFocus(roomStates'[code])
                                     = WithoutFocus(roomStates[code])]_vars

\* C33 witness: the app of a room that has a controller has reported a
\* position, and the room remembers it.
C33_Witness ==
    /\ lastEvent.event = "report_cursor_position"
    /\ HasRoom(roomStates, toUpperCase(lastEvent.roomId))
    /\ LET roomState == roomStates[toUpperCase(lastEvent.roomId)]
       IN  /\ roomState.appSocketId = lastEvent.socket
           /\ Len(roomState.controllerSocketIds) > 0
           /\ lastEvent.data # Missing
           /\ roomState.lastKnownCursor.x = lastEvent.data.x
           /\ roomState.lastKnownCursor.x # createInitialRoomState(0).lastKnownCursor.x

\* ------------------------------------------------- the viewport page
\* The sizes of the window the page is shown in: window.innerWidth and
\* window.innerHeight.
WindowSizes == {<<800, 600>>, <<320, 480>>}
\* What sessionStorage holds under SESSION_STORAGE_KEY when the page loads:
\* nothing, or the code an earlier load of the page has stored.
StoredCodes == {"", "A"}

\* initWebTouchViewport's local state in a window of the given size.
initWebTouchViewport(windowWidth, windowHeight) ==
    [assignedRoomCode |-> Null,
     windowWidth |-> windowWidth,
     windowHeight |-> windowHeight,
     cursorX |-> windowWidth \div 2,
     cursorY |-> windowHeight \div 2,
     cursorVisible |-> FALSE]

\* The page has been loaded, its socket has yet to connect; the server has
\* just started.
InitViewport ==
    /\ recognizer = "QDollar"
    /\ Templates = Q_constructor(Len(DefaultStrokes))
    /\ lastCall = NoCall
    /\ lastResult = [kind |-> "none", name |-> "", score |-> Zero]
    /\ argument = <<>>
    /\ calls = 0
    /\ input = NoInput
    /\ output = NoOutput
    /\ RelayInit
    /\ sessionStorage \in StoredCodes
    /\ client = NoClient
    /\ \E size \in WindowSizes : viewport = initWebTouchViewport(size[1], size[2])
    /\ outbox = <<>>
    /\ inbox = <<>>
    /\ requests = <<>>
    /\ pageEvent = NoPageEvent
    /\ CanvasInit

\* The messages of msgs emitted to the socket sid.
Addressed(msgs, sid) == SelectSeq(msgs, LAMBDA m : m.to = sid)

\* socket.emit(event, payload) on the page's socket.
Emit(box, event, payload) == Append(box, [event |-> event, payload |-> payload])

\* The page's handler of the event at the head of inbox has run.
PageHandled(event) ==
    /\ inbox' = Tail(inbox)
    /\ pageEvent' = [event |-> event, tick |-> 1 - pageEvent.tick]
    /\ UNCHANGED <<recognizerVars, relayVars, canvasVars>>

\* The page's socket connects, or connects again, as the connection sid of
\* the server: io.on('connection') runs and the socket's connect event is
\* on its way to the page. The connection gets the least id not yet used.
ViewportOpens(sid) ==
    /\ viewport # NoViewport
    /\ client.socket = 0
    /\ \A other \in Sockets : socketStatus[other] = "new" => sid <= other
    /\ ConnectionHandler(sid)
    /\ client' = [client EXCEPT !.socket = sid]
    /\ inbox' = <<Msg(sid, "connect", Null)>>
    /\ outbox' = <<>>
    /\ requests' = <<>>
    /\ UNCHANGED <<sessionStorage, viewport, pageEvent>>

\* socket.on('connect') of the viewport.
ViewportConnect ==
    /\ inbox # <<>>
    /\ Head(inbox).event = "connect"
    /\ \E previousRoomCode \in {sessionStorage} :
           IF previousRoomCode # ""
           THEN /\ outbox' = Emit(outbox, "rejoin_app_room", previousRoomCode)
                /\ requests' = Append(requests, "rejoin_app_room")
           ELSE /\ outbox' = Emit(outbox, "register_app_room", Null)
                /\ requests' = Append(requests, "register_app_room")
    /\ PageHandled("connect")
    /\ UNCHANGED <<sessionStorage, client, viewport>>

\* socket.on('your_room_id') of createAppClient, then of the viewport.
ViewportYourRoomId ==
    /\ inbox # <<>>
    /\ Head(inbox).event = "your_room_id"
    /\ client' = [client EXCEPT !.currentRoomId = Head(inbox).payload]
    /\ viewport' = [viewport EXCEPT
                       !.assignedRoomCode = toUpperCase(Head(inbox).payload)]
    /\ sessionStorage' = viewport'.assignedRoomCode
    /\ PageHandled("your_room_id")
    /\ UNCHANGED <<outbox, requests>>

\* The handler of rejoin_failed keeping the stored code and asking for the
\* same room again.
ViewportRejoinFailedRetrying ==
    /\ inbox # <<>>
    /\ Head(inbox).event = "rejoin_failed"
    /\ outbox' = Emit(outbox, "rejoin_app_room", sessionStorage)
    /\ requests' = Append(requests, "rejoin_app_room")
    /\ PageHandled("rejoin_failed")
    /\ UNCHANGED <<sessionStorage, client, viewport>>

\* socket.on('rejoin_failed') of the viewport; the handler createAppClient
\* calls before it is the empty default.
ViewportRejoinFailed ==
    /\ inbox # <<>>
    /\ Head(inbox).event = "rejoin_failed"
    /\ sessionStorage' = ""
    /\ viewport' = [viewport EXCEPT !.assignedRoomCode = Null]
    /\ outbox' = Emit(outbox, "register_app_room", Null)
    /\ requests' = Append(requests, "register_app_room")
    /\ PageHandled("rejoin_failed")
    /\ UNCHANGED client

\* updateCursorPosition's client.reportCursorPosition({x: cursorX, y:
\* cursorY}): nothing is sent while currentRoomId is null or empty.
reportCursorPosition(box, page, view) ==
    IF page.currentRoomId \in {Null, ""} THEN box
    ELSE Emit(box, "report_cursor_position",
              [roomId |-> page.currentRoomId,
               pos |-> [x |-> view.cursorX, y |-> view.cursorY]])

\* socket.on('initial_state') of the viewport; the server's state always
\* carries a cursor with x and y.
ViewportInitialState ==
    /\ inbox # <<>>
    /\ Head(inbox).event = "initial_state"
    /\ \E state \in {Head(inbox).payload} :
           viewport' = [viewport EXCEPT !.cursorX = state.cursor.x,
                                        !.cursorY = state.cursor.y]
    /\ outbox' = reportCursorPosition(outbox, client, viewport')
    /\ requests' = IF outbox' = outbox THEN requests
                   ELSE Append(requests, "report_cursor_position")
    /\ PageHandled("initial_state")
    /\ UNCHANGED <<sessionStorage, client>>

\* socket.on('set_cursor_visibility') of the viewport.
ViewportSetCursorVisibility ==
    /\ inbox # <<>>
    /\ Head(inbox).event = "set_cursor_visibility"
    /\ viewport' = [viewport EXCEPT !.cursorVisible = Head(inbox).payload]
    /\ PageHandled("set_cursor_visibility")
    /\ UNCHANGED <<sessionStorage, client, outbox, requests>>

\* socket.on('disconnect') of the viewport: the page's socket has lost its
\* connection, and with it what was on its way in either direction.
ViewportDisconnect ==
    /\ client.socket # 0
    /\ client' = [client EXCEPT !.socket = 0]
    /\ viewport' = [viewport EXCEPT !.cursorVisible = FALSE]
    /\ inbox' = <<>>
    /\ outbox' = <<>>
    /\ pageEvent' = [event |-> "disconnect", tick |-> 1 - pageEvent.tick]
    /\ UNCHANGED <<sessionStorage, requests>>
    /\ UNCHANGED <<recognizerVars, relayVars, canvasVars>>

\* The server has handled the event at the head of outbox: what it emitted
\* to the page's socket is on its way to the page.
Answered ==
    /\ outbox' = Tail(outbox)
    /\ inbox' = inbox \o Addressed(emitted', client.socket)
    /\ UNCHANGED <<sessionStorage, client, viewport, requests, pageEvent>>

\* The server handles the page's register_app_room.
ServerRegisterAppRoom ==
    /\ outbox # <<>>
    /\ Head(outbox).event = "register_app_room"
    /\ \E draws \in Draws : RegisterAppRoomHandler(client.socket, draws)
    /\ Answered

\* The server handles the page's rejoin_app_room.
ServerRejoinAppRoom ==
    /\ outbox # <<>>
    /\ Head(outbox).event = "rejoin_app_room"
    /\ RejoinAppRoomHandler(client.socket, Head(outbox).payload)
    /\ Answered

\* The server handles the page's report_cursor_position.
ServerReportCursorPosition ==
    /\ outbox # <<>>
    /\ Head(outbox).event = "report_cursor_position"
    /\ ReportCursorPositionHandler(client.socket, Head(outbox).payload.roomId,
                                   Head(outbox).payload.pos)
    /\ Answered

\* The server finds the connection sid closed: socket.on('disconnect').
ServerDisconnect(sid) ==
    /\ DisconnectHandler(sid)
    /\ inbox' = inbox \o Addressed(emitted', client.socket)
    /\ UNCHANGED <<sessionStorage, client, viewport, outbox, requests, pageEvent>>

\* The server handles a request of the page.
ServerAnswers ==
    \/ ServerRegisterAppRoom
    \/ ServerRejoinAppRoom
    \/ ServerReportCursorPosition

\* The page handles an event of its socket.
ViewportReceives ==
    \/ ViewportConnect
    \/ ViewportYourRoomId
    \/ ViewportRejoinFailed
    \/ ViewportInitialState
    \/ ViewportSetCursorVisibility

NextViewport ==
    \/ \E sid \in Sockets : ViewportOpens(sid)
    \/ ViewportDisconnect
    \/ \E sid \in Sockets : ServerDisconnect(sid)
    \/ ServerAnswers
    \/ ViewportReceives

SpecViewport == InitViewport /\ [][NextViewport]_vars

\* The server handles every request that reaches it, and the page every
\* event of its socket.
FairViewport ==
    /\ SpecViewport
    /\ WF_vars(ServerAnswers)
    /\ WF_vars(ViewportReceives)

\* The number of rejoin_app_room events among the requests reqs.
RejoinsSent(reqs) ==
    Cardinality({i \in 1..Len(reqs) : reqs[i] = "rejoin_app_room"})

\* The step is the page's handler of event.
PageHandles(event) == pageEvent' # pageEvent /\ pageEvent'.event = event

\* The page's socket has no connection the server answers on.
ConnectionLost ==
    client.socket = 0 \/ socketStatus[client.socket] # "connected"

\* Every room code is taken: the loop of register_app_room finds no code
\* and the server answers nothing any more.
NoCodeLeft == \A code \in RoomCodes : HasRoom(roomStates, code)

\* C34: on connect the viewport sends rejoin_app_room with the stored code
\* when sessionStorage holds one and register_app_room otherwise; on
\* rejoin_failed it clears the stored code and sends register_app_room; a
\* rejoin_app_room is sent by the connect handler only, so at most once per
\* connect, and the stored code changes only to the code of a your_room_id
\* or to nothing on rejoin_failed; and every connect is followed by a
\* your_room_id that the viewport handles, unless the connection is lost or
\* the server, all room codes taken, has stopped answering.
C34_ViewportGetsRoomCode ==
    /\ [][/\ RejoinsSent(requests') <= 1
          /\ RejoinsSent(requests') > RejoinsSent(requests) => PageHandles("connect")
          /\ PageHandles("connect")
                 => outbox' = IF sessionStorage # ""
                              THEN Emit(outbox, "rejoin_app_room", sessionStorage)
                              ELSE Emit(outbox, "register_app_room", Null)
          /\ PageHandles("rejoin_failed")
                 => /\ sessionStorage' = ""
                    /\ outbox' = Emit(outbox, "register_app_room", Null)
          /\ sessionStorage' # sessionStorage
                 => \/ PageHandles("rejoin_failed") /\ sessionStorage' = ""
                    \/ /\ PageHandles("your_room_id")
                       /\ sessionStorage' = toUpperCase(Head(inbox).payload)
                       /\ sessionStorage' = viewport'.assignedRoomCode]_vars
    /\ (pageEvent.event = "connect")
           ~> (pageEvent.event = "your_room_id" \/ ConnectionLost \/ NoCodeLeft)

\* C34 witness: on one connection the viewport has asked to rejoin, has
\* been refused, has registered a new room and has been assigned its code.
C34_Witness ==
    /\ pageEvent.event = "your_room_id"
    /\ requests = <<"rejoin_app_room", "register_app_room">>
    /\ viewport.assignedRoomCode \in RoomCodes
    /\ sessionStorage = viewport.assignedRoomCode
    /\ ~ConnectionLost

\* ------------------------------------------------- the viewport's cursor
\* The deltas of the cursor_move events the server forwards: what the
\* controller sent, times the room's sensitivity.
MoveData ==
    {[deltaX |-> 1000, deltaY |-> -1000], [deltaX |-> -1000, deltaY |-> 1000],
     [deltaX |-> 30, deltaY |-> 0]}

\* The page's socket is the app socket of a room.
IsAppOfRoom(sid) ==
    \E code \in RoomCodes :
        HasRoom(roomStates, code) /\ roomStates[code].appSocketId = sid

\* The server emits to the app socket of a room what the room's
\* controllers make it emit: cursor_move with the scaled deltas, and
\* set_cursor_visibility when the first controller comes or the last goes.
\* The controllers wait until the page has handled what it has received
\* and the server what the page has sent.
ServerForwards(event, payload) ==
    /\ client.socket # 0
    /\ SocketFound(socketStatus, client.socket)
    /\ IsAppOfRoom(client.socket)
    /\ events < MaxEvents
    /\ inbox = <<>> /\ outbox = <<>>
    /\ inbox' = Append(inbox, Msg(client.socket, event, payload))
    /\ UNCHANGED <<sessionStorage, client, viewport, outbox, requests, pageEvent>>
    /\ UNCHANGED <<recognizerVars, relayVars, canvasVars>>

\* Math.max(0, Math.min(limit, value)) on the integers of the model.
Clamp(value, limit) ==
    LET least == IF limit < value THEN limit ELSE value
    IN  IF 0 < least THEN least ELSE 0

\* socket.on('cursor_move') of the viewport; the deltas are numbers.
ViewportCursorMove ==
    /\ inbox # <<>>
    /\ Head(inbox).event = "cursor_move"
    /\ \E data \in {Head(inbox).payload} :
           IF ~viewport.cursorVisible
           THEN UNCHANGED <<viewport, outbox, requests>>
           ELSE /\ viewport' =
                       [viewport EXCEPT
                           !.cursorX = Clamp(@ + data.deltaX, viewport.windowWidth),
                           !.cursorY = Clamp(@ + data.deltaY, viewport.windowHeight)]
                /\ outbox' = reportCursorPosition(outbox, client, viewport')
                /\ requests' = IF outbox' = outbox THEN requests
                               ELSE Append(requests, "report_cursor_position")
    /\ PageHandled("cursor_move")
    /\ UNCHANGED <<sessionStorage, client>>

\* window.addEventListener('resize'): the window now has the given size.
\* The window is resized when the server has handled what the page sent.
ViewportResize(windowWidth, windowHeight) ==
    /\ viewport # NoViewport
    /\ events < MaxEvents
    /\ outbox = <<>>
    /\ viewport' = [viewport EXCEPT
                       !.windowWidth = windowWidth,
                       !.windowHeight = windowHeight,
                       !.cursorX = Clamp(@, windowWidth),
                       !.cursorY = Clamp(@, windowHeight)]
    /\ outbox' = IF client.socket = 0 THEN outbox
                 ELSE reportCursorPosition(outbox, client, viewport')
    /\ requests' = IF outbox' = outbox THEN requests
                   ELSE Append(requests, "report_cursor_position")
    /\ pageEvent' = [event |-> "resize", tick |-> 1 - pageEvent.tick]
    /\ UNCHANGED <<sessionStorage, client, inbox>>
    /\ UNCHANGED <<recognizerVars, relayVars, canvasVars>>

NextCursor ==
    \/ \E sid \in Sockets : ViewportOpens(sid)
    \/ ViewportDisconnect
    \/ ServerAnswers
    \/ ViewportReceives
    \/ \E data \in MoveData : ServerForwards("cursor_move", data)
    \/ \E visible \in BOOLEAN : ServerForwards("set_cursor_visibility", visible)
    \/ ViewportCursorMove
    \/ \E size \in WindowSizes : ViewportResize(size[1], size[2])

SpecCursor == InitViewport /\ [][NextCursor]_vars

\* The cursor of the view is inside its window.
InsideWindow(view) ==
    /\ 0 <= view.cursorX /\ view.cursorX <= view.windowWidth
    /\ 0 <= view.cursorY /\ view.cursorY <= view.windowHeight

\* C35: the viewport's cursor is always inside the window, whatever
\* initial_state, cursor_move and resize events the page has handled, and a
\* cursor_move handled while the cursor is not visible leaves cursorX and
\* cursorY as they were.
C35_CursorInsideWindow ==
    [][/\ InsideWindow(viewport')
       /\ (PageHandles("cursor_move") /\ ~viewport.cursorVisible)
              => /\ viewport'.cursorX = viewport.cursorX
                 /\ viewport'.cursorY = viewport.cursorY]_vars

\* ------------------------------------------------- the drawing canvas
\* The most strokes drawn and the most segments painted between two
\* resetCanvas calls.
MaxStrokes == 3
MaxInk == 2

StartEvents == {"mousedown", "touchstart"}
MoveEvents == {"mousemove", "touchmove"}
EndEvents == {"mouseup", "mouseout", "touchend"}

\* The canvas page has handled the event.
CanvasHandled(event) ==
    /\ canvasEvent' = [event |-> event, wasDrawing |-> isDrawing,
                       tick |-> 1 - canvasEvent.tick]
    /\ UNCHANGED <<recognizerVars, relayVars, pageVars>>

\* startDrawing(e), on mousedown and touchstart.
startDrawing(event) ==
    /\ strokes < MaxStrokes
    /\ isDrawing' = TRUE
    /\ strokes' = IF isDrawing THEN strokes ELSE strokes + 1
    /\ CanvasHandled(event)
    /\ UNCHANGED <<ink, predictionEl, confidenceEl, inFlight, sent, latest>>

\* draw(e), on mousemove and touchmove.
draw(event) ==
    /\ ink < MaxInk
    /\ ink' = IF ~isDrawing THEN ink ELSE ink + 1
    /\ CanvasHandled(event)
    /\ UNCHANGED <<isDrawing, predictionEl, confidenceEl, inFlight, sent, strokes,
                   latest>>

\* stopDrawing calling sendToModel whether a stroke was being drawn or not.
stopDrawingAlways(event) ==
    /\ isDrawing' = FALSE
    /\ sent' = sent + 1
    /\ inFlight' = inFlight \cup {[request |-> sent', image |-> ink]}
    /\ latest' = [kind |-> "stroke", request |-> sent']
    /\ CanvasHandled(event)
    /\ UNCHANGED <<ink, predictionEl, confidenceEl, strokes>>

\* stopDrawing(), on mouseup, mouseout and touchend; sendToModel() runs up
\* to its first await: the image is taken and the request is sent.
stopDrawing(event) ==
    /\ IF isDrawing
       THEN /\ isDrawing' = FALSE
            /\ sent' = sent + 1
            /\ inFlight' = inFlight \cup {[request |-> sent', image |-> ink]}
            /\ latest' = [kind |-> "stroke", request |-> sent']
       ELSE UNCHANGED <<isDrawing, sent, inFlight, latest>>
    /\ CanvasHandled(event)
    /\ UNCHANGED <<ink, predictionEl, confidenceEl, strokes>>

\* clearCanvas()
clearCanvas ==
    /\ ink' = 0
    /\ predictionEl' = [shows |-> "-"]
    /\ confidenceEl' = [shows |-> "Confidence: 0%"]
    /\ latest' = [kind |-> "clear", request |-> 0]
    /\ CanvasHandled("clear")
    /\ UNCHANGED <<isDrawing, inFlight, sent, strokes>>

\* How a call of sendToModel goes on after its awaits: the backend answers
\* with a digit, or with an error, or fetch or response.json() throws.
Outcomes == {"digit", "error", "throws"}

\* What the elements show for the answer to the request call.
Digit(call) == [shows |-> "digit", request |-> call.request, image |-> call.image]
Confidence(call) ==
    [shows |-> "confidence", request |-> call.request, image |-> call.image]

\* sendToModel() after its awaits, for the call that sent the request.
sendToModel(request, outcome) ==
    \E call \in {c \in inFlight : c.request = request} :
    /\ inFlight' = inFlight \ {call}
    /\ CASE outcome = "digit" ->
                /\ predictionEl' = Digit(call)
                /\ confidenceEl' = Confidence(call)
         [] outcome = "error" ->
                UNCHANGED <<predictionEl, confidenceEl>>
         [] outcome = "throws" ->
                /\ confidenceEl' = [shows |-> "Backend disconnected"]
                /\ UNCHANGED predictionEl
    /\ canvasEvent' = [event |-> "response", wasDrawing |-> isDrawing,
                       tick |-> 1 - canvasEvent.tick, request |-> call.request]
    /\ UNCHANGED <<isDrawing, ink, sent, strokes, latest>>
    /\ UNCHANGED <<recognizerVars, relayVars, pageVars>>

NextCanvas ==
    \/ \E event \in StartEvents : startDrawing(event)
    \/ \E event \in MoveEvents : draw(event)
    \/ \E event \in EndEvents : stopDrawing(event)
    \/ clearCanvas
    \/ \E request \in 1..MaxStrokes, outcome \in Outcomes :
           sendToModel(request, outcome)

SpecCanvas == Init /\ [][NextCanvas]_vars

\* The step is the canvas page's handler of one of the events.
CanvasHandles(handled) ==
    canvasEvent' # canvasEvent /\ canvasEvent'.event \in handled

\* C36: the calls of sendToModel are the strokes that have ended: an end
\* event (mouseup, mouseout, touchend) handled while a stroke is being
\* drawn ends it and sends one request, an end event handled while none is
\* being drawn sends none, no other event sends one, and a move event
\* handled while no stroke is being drawn paints nothing.
C36_OneRequestPerStroke ==
    [][/\ sent' = strokes' - (IF isDrawing' THEN 1 ELSE 0)
       /\ CanvasHandles(EndEvents)
              => /\ ~isDrawing'
                 /\ sent' = sent + (IF isDrawing THEN 1 ELSE 0)
                 /\ Cardinality(inFlight') = Cardinality(inFlight) + (sent' - sent)
       /\ ~CanvasHandles(EndEvents) => sent' = sent
       /\ (CanvasHandles(MoveEvents) /\ ~isDrawing) => ink' = ink]_vars

\* C36 witness: a mouseout was handled when the one stroke drawn had
\* already ended, and one request has been sent.
C36_Witness ==
    /\ canvasEvent.event = "mouseout"
    /\ ~canvasEvent.wasDrawing
    /\ strokes = 1
    /\ sent = 1
    /\ ink > 0

\* C37: a response changes what predictionEl and confidenceEl show only if
\* it answers the request of the user's last action: not when a later
\* stroke has ended since the request was sent, and not when the canvas has
\* been cleared since.
C37_DisplayFollowsLatestAction ==
    [][(CanvasHandles({"response"})
            /\ <<predictionEl', confidenceEl'>> # <<predictionEl, confidenceEl>>)
        => latest = [kind |-> "stroke", request |-> canvasEvent'.request]]_vars

\* ------------------------------------------------- remote typing
\* The longest value of a field before a key is typed.
MaxValueLen == 2

\* A string as the sequence of its characters.
RECURSIVE Texts(_)
Texts(n) ==
    IF n = 0 THEN {<<>>}
    ELSE Texts(n - 1) \cup {Append(t, c) : t \in Texts(n - 1), c \in {"x", "y"}}

\* selectionStart and selectionEnd of an input whose type has no text
\* selection (checkbox, radio): null.
NullIndex == -1

\* document.activeElement: nothing (null), the body, a text input, a
\* textarea, or a checkbox of the form, the selection wherever the user
\* left it.
NoElement ==
    [tagName |-> "", type |-> "", form |-> FALSE, selector |-> "", value |-> <<>>,
     selectionStart |-> NullIndex, selectionEnd |-> NullIndex]
TextFields ==
    {e \in {[tagName |-> tag[1], type |-> tag[2], form |-> TRUE, selector |-> tag[3],
             value |-> t, selectionStart |-> a, selectionEnd |-> b] :
                tag \in {<<"INPUT", "text", "#textField">>,
                         <<"TEXTAREA", "textarea", "#textArea">>},
                t \in Texts(MaxValueLen), a \in 0..MaxValueLen, b \in 0..MaxValueLen} :
        e.selectionStart <= e.selectionEnd /\ e.selectionEnd <= Len(e.value)}
ActiveElements ==
    {NoElement,
     [NoElement EXCEPT !.tagName = "BODY", !.selector = "body"],
     [tagName |-> "INPUT", type |-> "checkbox", form |-> TRUE,
      selector |-> "#checkItem1", value |-> <<"o", "n">>,
      selectionStart |-> NullIndex, selectionEnd |-> NullIndex]}
    \cup TextFields

\* The keys a controller sends.
TypingKeys == {"Backspace", "Enter", "x", " ", "Shift"}
\* key.length
KeyLength(key) ==
    CASE key = "Backspace" -> 9
      [] key \in {"Enter", "Shift"} -> 5
      [] OTHER -> 1

\* ToIntegerOrInfinity of an index: null counts as 0.
ToIndex(i) == IF i = NullIndex THEN 0 ELSE i

\* String.prototype.substring(from, to): both ends are brought into the
\* string and put in order.
substring(str, from, to) ==
    LET Into(i) == IF i < 0 THEN 0 ELSE IF i > Len(str) THEN Len(str) ELSE i
        a == Into(ToIndex(from))
        b == Into(ToIndex(to))
    IN  IF a <= b THEN SubSeq(str, a + 1, b) ELSE SubSeq(str, b + 1, a)

\* The element has a text selection: a textarea, or an input of type text.
HasSelection(element) == element.type \in {"text", "textarea"}

\* element.value = text: a text control that gets another value has its
\* caret put at the end.
SetValue(element, text) ==
    IF HasSelection(element) /\ text # element.value
    THEN [element EXCEPT !.value = text, !.selectionStart = Len(text),
                         !.selectionEnd = Len(text)]
    ELSE [element EXCEPT !.value = text]

\* element.selectionStart = element.selectionEnd = index, on an element
\* that has a text selection: the index is kept inside the value.
SetSelection(element, index) ==
    LET caret == IF index > Len(element.value) THEN Len(element.value) ELSE index
    IN  [element EXCEPT !.selectionStart = caret, !.selectionEnd = caret]

\* What a call of onKeyInput leaves: the element, whether it threw, the
\* focus info it reported (Missing: none), whether it cleared the form.
KeyResult(element, threw, reported, cleared) ==
    [activeElement |-> element, threw |-> threw, reported |-> reported,
     cleared |-> cleared]

\* The assignment of the value and of the selection, then the report: the
\* selection of an input without text selection cannot be set, the
\* assignment throws InvalidStateError.
Edit(inputElement, text, caret) ==
    LET edited == SetValue(inputElement, text)
    IN  IF ~HasSelection(inputElement)
        THEN KeyResult(edited, TRUE, Missing, FALSE)
        ELSE LET placed == SetSelection(edited, caret)
             IN  KeyResult(placed, FALSE,
                           [selector |-> placed.selector, value |-> placed.value],
                           FALSE)

\* simulateFormClear(form), as the element sees it: the text field and the
\* textarea are emptied.
simulateFormClear(element) ==
    IF HasSelection(element) THEN SetValue(element, <<>>) ELSE element

\* onKeyInput(activeElement, {key, reportFocusChange, getUniqueSelector})
onKeyInput(activeElement, key) ==
    IF activeElement = NoElement
       \/ (activeElement.tagName # "INPUT" /\ activeElement.tagName # "TEXTAREA")
    THEN KeyResult(activeElement, FALSE, Missing, FALSE)
    ELSE LET inputElement == activeElement
             start == inputElement.selectionStart
             end == inputElement.selectionEnd
             currentValue == inputElement.value
             Unchanged == KeyResult(inputElement, FALSE, Missing, FALSE)
         IN  IF key = "Backspace"
             THEN IF start = end /\ ToIndex(start) > 0
                  THEN Edit(inputElement,
                            substring(currentValue, 0, start - 1)
                                \o substring(currentValue, end, Len(currentValue)),
                            start - 1)
                  ELSE IF start # NullIndex /\ end # NullIndex /\ start < end
                  THEN Edit(inputElement,
                            substring(currentValue, 0, start)
                                \o substring(currentValue, end, Len(currentValue)),
                            start)
                  ELSE Unchanged
             ELSE IF key = "Enter"
             THEN IF inputElement.tagName = "TEXTAREA"
                  THEN Edit(inputElement,
                            substring(currentValue, 0, start) \o <<"\n">>
                                \o substring(currentValue, end, Len(currentValue)),
                            ToIndex(start) + 1)
                  ELSE IF inputElement.form
                  THEN KeyResult(simulateFormClear(inputElement), FALSE, Missing, TRUE)
                  ELSE Unchanged
             ELSE IF KeyLength(key) = 1 \/ key = " "
             THEN Edit(inputElement,
                       substring(currentValue, 0, start) \o <<key>>
                           \o substring(currentValue, end, Len(currentValue)),
                       ToIndex(start) + KeyLength(key))
             ELSE Unchanged

\* A key_input event is about to reach the page, document.activeElement
\* being any of the elements.
InitTyping ==
    /\ recognizer = "QDollar"
    /\ Templates = Q_constructor(Len(DefaultStrokes))
    /\ lastCall = NoCall
    /\ lastResult = [kind |-> "none", name |-> "", score |-> Zero]
    /\ argument = <<>>
    /\ calls = 0
    /\ input \in {[method |-> "onKeyInput", activeElement |-> e, key |-> k] :
                     e \in ActiveElements, k \in TypingKeys}
    /\ output = NoOutput
    /\ RelayInit
    /\ PageInit
    /\ CanvasInit

\* The viewport's key_input handler calls onKeyInput(document.activeElement,
\* {key, ...}).
OnKeyInput ==
    /\ input.method = "onKeyInput"
    /\ output = NoOutput
    /\ output' = [method |-> "onKeyInput",
                  result |-> onKeyInput(input.activeElement, input.key)]
    /\ UNCHANGED <<recognizer, Templates, lastCall, lastResult, argument, calls, input>>
    /\ UNCHANGED <<relayVars, pageVars, canvasVars>>

NextTyping == OnKeyInput

SpecTyping == InitTyping /\ [][NextTyping]_vars

\* An input or a textarea has the focus.
FieldFocused(element) == element.tagName \in {"INPUT", "TEXTAREA"}

\* The text without the characters from index from up to index to, and
\* with the characters of typed in their place.
Replaced(text, from, to, typed) ==
    [i \in 1..(Len(text) - (to - from) + Len(typed)) |->
        IF i <= from THEN text[i]
        ELSE IF i <= from + Len(typed) THEN typed[i - from]
        ELSE text[i - Len(typed) + (to - from)]]

\* The call edited the field from index from up to index to, putting typed
\* there: the value, the caret right of what was typed, and the report.
EditedAs(before, result, from, to, typed) ==
    /\ ~result.threw
    /\ result.activeElement.value = Replaced(before.value, from, to, typed)
    /\ result.activeElement.selectionStart = result.activeElement.selectionEnd
    /\ result.activeElement.selectionStart = from + Len(typed)
    /\ 0 <= result.activeElement.selectionStart
    /\ result.activeElement.selectionStart <= Len(result.activeElement.value)
    /\ result.reported
           = [selector |-> before.selector, value |-> result.activeElement.value]

\* C38: on a focused input or textarea, Backspace with an empty selection
\* and the caret right of 0 removes the character left of the caret,
\* Backspace with a selection removes the selection, and a key of one
\* character replaces the selection with the character; after each the
\* selection is empty, the caret is inside the value and the value is
\* reported; Backspace with the caret at 0 and no selection, and any key
\* when no input or textarea has the focus, change and report nothing.
C38_RemoteTyping ==
    output.method = "onKeyInput"
        => LET before == input.activeElement
               key == input.key
               result == output.result
               from == ToIndex(before.selectionStart)
               to == ToIndex(before.selectionEnd)
               Nothing ==
                   /\ ~result.threw
                   /\ result.activeElement = before
                   /\ result.reported = Missing
                   /\ ~result.cleared
           IN  /\ ~FieldFocused(before) => Nothing
               /\ (FieldFocused(before) /\ key = "Backspace")
                      => IF from < to THEN EditedAs(before, result, from, to, <<>>)
                         ELSE IF from > 0
                         THEN EditedAs(before, result, from - 1, from, <<>>)
                         ELSE Nothing
               /\ (FieldFocused(before) /\ KeyLength(key) = 1)
                      => EditedAs(before, result, from, to, <<key>>)

\* ------------------------------------- QDollar._resample, step by step
\* The stroke ids of the points of a multistroke.
StrokeIds == {1, 2}

\* The arrays of {x, y, id} records QDollar._resample is given: points on
\* the grid, each carrying the id of its stroke.
RECURSIVE StrokeSeqs(_)
StrokeSeqs(n) ==
    IF n = 0 THEN {<<>>}
    ELSE LET shorter == StrokeSeqs(n - 1)
         IN  shorter \cup
             {Append(s, Rec(Num(x), Num(y), id)) :
                  s \in {t \in shorter : Len(t) = n - 1},
                  x \in Coords, y \in Coords, id \in StrokeIds}
StrokeInputs == {s \in StrokeSeqs(MaxInputLen) : Len(s) >= 2}

\* QDollar._resample is about to be called with a multistroke and a target
\* count.
InitStrokes ==
    /\ recognizer = "QDollar"
    /\ Templates = <<>>
    /\ lastCall = NoCall
    /\ lastResult = [kind |-> "none", name |-> "", score |-> Zero]
    /\ argument = <<>>
    /\ calls = 0
    /\ input \in {[method |-> "_resample", points |-> p, n |-> n] :
                     p \in StrokeInputs, n \in 3..MaxTarget}
    /\ output = NoOutput
    /\ RelayInit
    /\ PageInit
    /\ CanvasInit

\* The statements of QDollar._resample before its loop: I, D, newPoints
\* and the loop variable (i is the 1-based position of points[i]).
QResampleEnter ==
    /\ input.method = "_resample"
    /\ output = NoOutput
    /\ output' = [method |-> "loop",
                  points |-> input.points,
                  I |-> Over(Q_pathLength(input.points), Num(input.n - 1)),
                  D |-> Zero,
                  newPoints |-> <<input.points[1]>>,
                  i |-> 2]
    /\ UNCHANGED <<recognizer, Templates, lastCall, lastResult, argument, calls, input>>
    /\ UNCHANGED <<relayVars, pageVars, canvasVars>>

\* One iteration of the loop of QDollar._resample.
QResampleIterate ==
    /\ output.method = "loop"
    /\ output.i <= Len(output.points)
    /\ LET points == output.points
           i == output.i
           d == Distance(points[i - 1], points[i])
           q == Interpolate(points[i - 1], points[i],
                            Over(Minus(output.I, output.D), d), points[i].id)
       IN  output' = IF points[i].id # points[i - 1].id
                     THEN [output EXCEPT !.i = i + 1]
                     ELSE IF Ge(Plus(output.D, d), output.I)
                     THEN [output EXCEPT !.newPoints = Append(@, q),
                                         !.points = Splice(points, i, q),
                                         !.D = Zero,
                                         !.i = i + 1]
                     ELSE [output EXCEPT !.D = Plus(@, d), !.i = i + 1]
    /\ UNCHANGED <<recognizer, Templates, lastCall, lastResult, argument, calls, input>>
    /\ UNCHANGED <<relayVars, pageVars, canvasVars>>

\* The statements of QDollar._resample after its loop: the last point is
\* appended when one point is missing, and newPoints is returned.
QResampleReturn ==
    /\ output.method = "loop"
    /\ output.i > Len(output.points)
    /\ LET last == output.points[Len(output.points)]
       IN  output' = [method |-> "_resample",
                      newPoints |->
                          IF Len(output.newPoints) = input.n - 1
                          THEN Append(output.newPoints,
                                      Rec(PX(last), PY(last), last.id))
                          ELSE output.newPoints]
    /\ UNCHANGED <<recognizer, Templates, lastCall, lastResult, argument, calls, input>>
    /\ UNCHANGED <<relayVars, pageVars, canvasVars>>

NextStrokes == QResampleEnter \/ QResampleIterate \/ QResampleReturn

SpecStrokes == InitStrokes /\ [][NextStrokes]_vars

\* The point q lies on the segment from a to b: its coordinates are
\* finite, between those of a and b, and q is collinear with a and b.
OnSegment(q, a, b) ==
    /\ IsFinite(PX(q)) /\ IsFinite(PY(q))
    /\ \/ PX(a).v <= PX(q).v /\ PX(q).v <= PX(b).v
       \/ PX(b).v <= PX(q).v /\ PX(q).v <= PX(a).v
    /\ \/ PY(a).v <= PY(q).v /\ PY(q).v <= PY(b).v
       \/ PY(b).v <= PY(q).v /\ PY(q).v <= PY(a).v
    /\ (PX(q).v - PX(a).v) * (PY(b).v - PY(a).v)
           = (PY(q).v - PY(a).v) * (PX(b).v - PX(a).v)

\* The sum of the lengths of the segments of points whose two endpoints
\* carry the same stroke id, taken from the front of the array.
RECURSIVE StrokeLengthFrom(_, _)
StrokeLengthFrom(points, j) ==
    IF j > Len(points) THEN Zero
    ELSE Plus(IF points[j].id = points[j - 1].id
              THEN Distance(points[j - 1], points[j]) ELSE Zero,
              StrokeLengthFrom(points, j + 1))

\* The step is an iteration of the loop of _resample.
Iterates == output.method = "loop" /\ output'.method = "loop"

\* The iteration synthesizes a point.
Synthesizes == Iterates /\ Len(output'.newPoints) > Len(output.newPoints)

\* The iteration is at a segment whose endpoints carry different ids.
AtBoundary ==
    /\ Iterates
    /\ output.points[output.i].id # output.points[output.i - 1].id

\* The point q lies on a segment of the array given to _resample whose
\* two endpoints carry the stroke id that q carries.
OnStrokeOfInput(q) ==
    \E j \in 2..Len(input.points) :
        /\ input.points[j].id = input.points[j - 1].id
        /\ q.id = input.points[j].id
        /\ OnSegment(q, input.points[j - 1], input.points[j])

\* C39: QDollar._resample never bridges a boundary between strokes: the
\* spacing I is the length of the same-id segments alone over n - 1; an
\* iteration at a segment whose endpoints carry different ids leaves the
\* accumulated distance D, the walked array and the emitted points as they
\* were; and a point is synthesized only on a segment whose endpoints carry
\* the same id, lies on that segment and on a same-id segment of the array
\* given, and carries that id.
C39_NeverBridgesStrokes ==
    /\ [](output.method = "loop"
            => output.I = Over(StrokeLengthFrom(input.points, 2), Num(input.n - 1)))
    /\ [][/\ AtBoundary => /\ output'.D = output.D
                           /\ output'.points = output.points
                           /\ output'.newPoints = output.newPoints
          /\ Synthesizes =>
                 LET a == output.points[output.i - 1]
                     b == output.points[output.i]
                     q == output'.newPoints[Len(output'.newPoints)]
                 IN  /\ a.id = b.id
                     /\ q.id = b.id
                     /\ OnSegment(q, a, b)
                     /\ OnStrokeOfInput(q)]_vars

\* The array given to _resample has a segment of positive length whose
\* endpoints carry the same stroke id (its path length is positive).
HasStrokeLength == Lt(Zero, StrokeLengthFrom(input.points, 2))

\* C39 on arrays of positive path length: the statement of C39 for the
\* calls whose array has a same-id segment of positive length.
C39_NeverBridgesWithLength ==
    /\ []((output.method = "loop" /\ HasStrokeLength)
            => output.I = Over(StrokeLengthFrom(input.points, 2), Num(input.n - 1)))
    /\ [][HasStrokeLength =>
          /\ AtBoundary => /\ output'.D = output.D
                           /\ output'.points = output.points
                           /\ output'.newPoints = output.newPoints
          /\ Synthesizes =>
                 LET a == output.points[output.i - 1]
                     b == output.points[output.i]
                     q == output'.newPoints[Len(output'.newPoints)]
                 IN  /\ a.id = b.id
                     /\ q.id = b.id
                     /\ OnSegment(q, a, b)
                     /\ OnStrokeOfInput(q)]_vars

\* _resample has returned for an array of two strokes after walking over
\* the boundary between them with distance accumulated, and has
\* synthesized a point on each of the two strokes.
StrokesResampled ==
    /\ output.method = "_resample"
    /\ HasStrokeLength
    /\ \E j \in 2..Len(input.points) : input.points[j].id # input.points[j - 1].id
    /\ \A id \in StrokeIds :
           \E k \in 2..Len(output.newPoints) :
               /\ output.newPoints[k].id = id
               /\ \A j \in 1..Len(input.points) : input.points[j] # output.newPoints[k]

\* What the whole call returns is what the steps have returned.
StepsAgreeWithCall ==
    output.method = "_resample"
        => output.newPoints = Q_resample(input.points, input.n).newPoints

=============================================================================
